---- MODULE Spec2Model ----
(***************************************************************************)
(* A model of modelx/core/space.py: spaces (containers) with own and       *)
(* derived members, the lazily evaluated mappings that connect them, the   *)
(* C3 linearization of base spaces and the memoized dynamic child spaces.  *)
(*                                                                         *)
(* Objects are modelled by value:                                          *)
(*   - a SpaceImpl is a record of impl, addressed by its id (1, 2, ...);   *)
(*     id 0 is the model (the root SpaceContainerImpl);                    *)
(*   - a member of a mapping is a record [kind, a, b, c, d, e]:            *)
(*       cells : a = its Formula object, b = its space, c = value for (),  *)
(*               d = 1 when the formula has parameters, e = the values     *)
(*               computed so far, by arguments                             *)
(*       space : a = id of the SpaceImpl                                   *)
(*       ref   : a = the value                                             *)
(*   - a mapping (dict) is a function from names to members.               *)
(*                                                                         *)
(* modelx/core/base.py (LazyEvalDict, LazyEvalChainMap, ObjectArgs),       *)
(* cells.py and util.py are not part of the sources at hand; the           *)
(* operators that stand for them are marked as such where they are         *)
(* defined.                                                                *)
(***************************************************************************)
EXTENDS Integers, Sequences, FiniteSets, TLC

\* ---------------------------------------------------------------------
\* Bounds of the model

MaxSpaces == 4
MaxFormulas == 3
MaxOps == 3
MaxMroOps == 5
MaxCellsOps == 6
MaxParamOps == 5
MaxEvalOps == 4
MaxStateOps == 3
MaxViewOps == 4

\* ---------------------------------------------------------------------
\* Input domains

Names == {"x", "y"}
BadName == "1x"
RefValues == {1, 2}
ArgValues == {1, 2}
AutoNames == <<"Space1", "Space2", "Space3", "Space4", "Space5", "Space6", "Space7">>
GlobalNames == {"__builtins__", "get_self"}
ParamFuncs == {"pf_none", "pf_name", "pf_raise"}
\* A parameter formula that returns {'bases': get_self()}.
ParamFuncSelf == "pf_self"
\* A parameter formula that returns {'bases': x(a)}: it asks the child
\* space x for its child of the same argument.
ParamFuncNested == "pf_nested"
NoParamFunc == "None"
NoName == ""
\* The name of the cells that are evaluated
CellsName == "foo"
Model == 0

Kinds == {"cells", "spaces", "refs"}

\* ---------------------------------------------------------------------
\* dict

\* The values a cells has computed: none.
EmptyStore == [args \in {} |-> [v |-> 0, deps |-> {}]]

EmptyMap == [n \in {} |-> [kind |-> "refs", a |-> 0, b |-> 0, c |-> 0, d |-> 0, e |-> EmptyStore]]

Put(m, k, v) == [n \in (DOMAIN m) \cup {k} |-> IF n = k THEN v ELSE m[n]]

Del(m, k) == [n \in (DOMAIN m) \ {k} |-> m[n]]

Restrict(m, ks) == [n \in (DOMAIN m) \cap ks |-> m[n]]

DictUpdate(m, other) ==
    [n \in (DOMAIN m) \cup (DOMAIN other) |->
        IF n \in DOMAIN other THEN other[n] ELSE m[n]]

\* A local variable: Body applied to the value v.
Bind(v, Body(_)) == Body(v)

CellObj(f, s, v, p) == [kind |-> "cells", a |-> f, b |-> s, c |-> v, d |-> p, e |-> EmptyStore]
SpaceObj(id) == [kind |-> "spaces", a |-> id, b |-> 0, c |-> 0, d |-> 0, e |-> EmptyStore]
RefObj(v) == [kind |-> "refs", a |-> v, b |-> 0, c |-> 0, d |-> 0, e |-> EmptyStore]

\* collections.ChainMap over a sequence of dicts: a lookup returns the
\* entry of the first map that has the key.
RECURSIVE ChainItems(_)
ChainItems(maps) ==
    IF maps = <<>> THEN EmptyMap
    ELSE DictUpdate(ChainItems(Tail(maps)), Head(maps))

is_valid_name(name) ==
    name \in Names \cup {AutoNames[i] : i \in 1..Len(AutoNames)} \cup {CellsName}

\* ---------------------------------------------------------------------
\* State

VARIABLES impl, model_spaces, model_namer, nformula, system_self, self_seen,
          nops, result

vars == <<impl, model_spaces, model_namer, nformula, system_self, self_seen,
          nops, result>>

\* The objects an operation works on, as one value. self is system.self;
\* seen lists what system.self was each time the code of a parameter
\* formula ran during the operation: when it was entered, and when a
\* get_space that it called had returned.
World == [impl |-> impl, root |-> model_spaces, rootnamer |-> model_namer,
          nformula |-> nformula, self |-> system_self, seen |-> <<>>]

Ids(w) == DOMAIN w.impl

SetImpl(w, s, rec) == [w EXCEPT !.impl = [t \in DOMAIN w.impl |-> IF t = s THEN rec ELSE w.impl[t]]]

SetField(w, s, fld, val) == SetImpl(w, s, [w.impl[s] EXCEPT ![fld] = val])

\* ---------------------------------------------------------------------
\* The per-kind and merged mappings of a space

SelfOf(sp, k) ==
    CASE k = "cells" -> sp.self_cells
      [] k = "spaces" -> sp.self_spaces
      [] k = "refs" -> sp.self_refs

DerivedOf(sp, k) ==
    CASE k = "cells" -> sp.derived_cells
      [] k = "spaces" -> sp.derived_spaces
      [] k = "refs" -> sp.derived_refs

BaseOf(sp, k) ==
    CASE k = "cells" -> sp.base_cells
      [] k = "spaces" -> sp.base_spaces
      [] k = "refs" -> sp.base_refs

BaseName(k) == CASE k = "cells" -> "base_cells" [] k = "spaces" -> "base_spaces" [] k = "refs" -> "base_refs"
DerivedName(k) == CASE k = "cells" -> "derived_cells" [] k = "spaces" -> "derived_spaces" [] k = "refs" -> "derived_refs"

self_members(sp) == ChainItems(<<sp.self_cells, sp.self_spaces, sp.self_refs, sp.dynamic_spaces>>)

\* A cells mapping that chains the derived cells before the own cells.
cells_DerivedFirst(sp) == ChainItems(<<sp.derived_cells, sp.self_cells>>)

cells(sp) == ChainItems(<<sp.self_cells, sp.derived_cells>>)

static_spaces(sp) == ChainItems(<<sp.self_spaces, sp.derived_spaces>>)

spaces(sp) == ChainItems(<<static_spaces(sp), sp.dynamic_spaces>>)

ArgumentsMap(sp) == IF sp.arguments = <<>> THEN EmptyMap ELSE [n \in {"a"} |-> RefObj(sp.arguments[1])]

refs(sp) == ChainItems(<<sp.global_refs, ArgumentsMap(sp), sp.self_refs, sp.derived_refs>>)

namespace_impl(sp) == ChainItems(<<cells(sp), spaces(sp), refs(sp)>>)

\* The spaces mapping of a container: the model keeps a plain dict.
SpacesOfContainer(w, p) == IF p = Model THEN w.root ELSE spaces(w.impl[p])

\* ---------------------------------------------------------------------
\* Lazy evaluation: flags and observers

LazyNames == {"self_members", "base_cells", "base_spaces", "base_refs",
              "derived_cells", "derived_spaces", "derived_refs",
              "cells", "static_spaces", "spaces", "refs",
              "namespace_impl", "namespace"}

InMroTail(sp, s) == \E i \in 2..Len(sp.mro) : sp.mro[i] = s

\* The observers registered on lazy object c of space s, as <<space, name>>.
Observers(w, s, c) ==
    CASE c = "self_cells" -> {<<s, "self_members">>, <<s, "cells">>}
      [] c = "self_spaces" -> {<<s, "self_members">>, <<s, "static_spaces">>}
      [] c = "self_refs" -> {<<s, "self_members">>, <<s, "refs">>}
      [] c = "dynamic_spaces" -> {<<s, "self_members">>, <<s, "spaces">>}
      [] c = "arguments" -> {<<s, "refs">>}
      [] c = "self_members" ->
            {<<s, "derived_cells">>, <<s, "derived_spaces">>, <<s, "derived_refs">>}
            \cup {<<d, b>> : d \in {t \in Ids(w) : InMroTail(w.impl[t], s)},
                             b \in {"base_cells", "base_spaces", "base_refs"}}
      [] c = "base_cells" -> {<<s, "derived_cells">>}
      [] c = "base_spaces" -> {<<s, "derived_spaces">>}
      [] c = "base_refs" -> {<<s, "derived_refs">>}
      [] c = "derived_cells" -> {<<s, "cells">>}
      [] c = "derived_spaces" -> {<<s, "static_spaces">>}
      [] c = "derived_refs" -> {<<s, "refs">>}
      [] c = "static_spaces" -> {<<s, "spaces">>}
      [] c \in {"cells", "spaces", "refs"} -> {<<s, "namespace_impl">>}
      [] c = "namespace_impl" -> {<<s, "namespace">>}
      [] c = "namespace" -> {}

RECURSIVE Fanout(_, _, _)
Fanout(w, frontier, acc) ==
    IF frontier = {} THEN acc
    ELSE LET nxt == UNION {Observers(w, p[1], p[2]) : p \in frontier}
         IN Fanout(w, nxt \ acc, acc \cup nxt)

\* The values of a cells that were computed without reading any of the
\* lazy objects of marked.
KeepValues(store, marked) ==
    [args \in {k \in DOMAIN store : store[k].deps \cap marked = {}} |-> store[args]]

DropValues(m, marked) == [n \in DOMAIN m |-> [m[n] EXCEPT !.e = KeepValues(@, marked)]]

\* Every lazy object of marked is flagged, and a value that a cells has
\* computed from one of them is dropped from the cells.
MarkAll(w, marked) ==
    [w EXCEPT !.impl = [t \in DOMAIN w.impl |->
        [w.impl[t] EXCEPT !.dirty = @ \cup {p[2] : p \in {q \in marked : q[1] = t}},
                          !.self_cells = DropValues(@, marked),
                          !.derived_cells = DropValues(@, marked)]]]

\* LazyEvalDict.set_update: flags the object itself unless skip_self, and
\* every observer, transitively.
set_update(w, s, c, skip_self) ==
    MarkAll(w, Fanout(w, {<<s, c>>}, IF skip_self THEN {} ELSE {<<s, c>>}))

ClearFlag(w, s, c) == SetField(w, s, "dirty", w.impl[s].dirty \ {c})

IsDirty(w, s, c) == c \in w.impl[s].dirty

\* ---------------------------------------------------------------------
\* Inheritance: C3 linearization

InTail(x, seq) == \E i \in 2..Len(seq) : seq[i] = x

\* A merge that takes the head of the first sequence that is not empty,
\* whether or not it occurs in the tail of another sequence.
RECURSIVE C3Merge_AnyHead(_, _)
C3Merge_AnyHead(seqs, res) ==
    LET non_empty == {i \in 1..Len(seqs) : seqs[i] # <<>>}
    IN IF non_empty = {} THEN [ok |-> TRUE, res |-> res, seqs |-> seqs]
       ELSE LET first == CHOOSE i \in non_empty : \A j \in non_empty : i <= j
                candidate == seqs[first][1]
            IN C3Merge_AnyHead([i \in 1..Len(seqs) |->
                                  IF seqs[i] # <<>> /\ seqs[i][1] = candidate
                                  THEN Tail(seqs[i]) ELSE seqs[i]],
                               res \o <<candidate>>)

\* The merge loop of _update_mro over the list of sequences seqs; the last
\* of seqs is the list direct_bases itself.
RECURSIVE C3Merge(_, _)
C3Merge(seqs, res) ==
    LET non_empty == {i \in 1..Len(seqs) : seqs[i] # <<>>}
    IN IF non_empty = {} THEN [ok |-> TRUE, res |-> res, seqs |-> seqs]
       ELSE LET heads == {i \in non_empty :
                            ~ \E j \in non_empty : InTail(seqs[i][1], seqs[j])}
            IN IF heads = {} THEN [ok |-> FALSE, res |-> res, seqs |-> seqs]
               ELSE LET first == CHOOSE i \in heads : \A j \in heads : i <= j
                        candidate == seqs[first][1]
                    IN C3Merge([i \in 1..Len(seqs) |->
                                  IF seqs[i] # <<>> /\ seqs[i][1] = candidate
                                  THEN Tail(seqs[i]) ELSE seqs[i]],
                               res \o <<candidate>>)

\* _update_mro of a space self with the list direct_bases: the mro, and
\* the list direct_bases as the merge leaves it.
update_mro(w, self, direct_bases) ==
    Bind(C3Merge([i \in 1..Len(direct_bases) |-> w.impl[direct_bases[i]].mro]
                    \o <<direct_bases>>, <<>>),
         LAMBDA m :
            [ok |-> m.ok,
             mro |-> IF m.ok THEN <<self>> \o m.res ELSE <<>>,
             direct_bases |-> m.seqs[Len(m.seqs)]])

\* ---------------------------------------------------------------------
\* Results of operations that may raise

Ok(w, ret) == [w |-> w, ok |-> TRUE, err |-> "", ret |-> ret]

Raise(w, err) == [w |-> w, ok |-> FALSE, err |-> err, ret |-> 0]

\* Not an outcome of the program: the model has run out of objects.
OutOfBound == "out of bound"

\* The order in which a dict is iterated: names in the order of ord, then
\* the automatic names, then the name of the cells that is evaluated.
IterOrder(ord) == ord \o AutoNames \o <<CellsName>>

KeysInOrder(m, ord) ==
    LET InMap(n) == n \in DOMAIN m
    IN SelectSeq(IterOrder(ord), InMap)

Orders == {<<"x", "y">>, <<"y", "x">>}

\* ---------------------------------------------------------------------
\* BaseMembers

\* A loop that removes only the names that base_next owns as members of
\* the kind k.
RECURSIVE BaseMembersLoop_SameKind(_, _, _, _, _)
BaseMembersLoop_SameKind(w, mro, k, i, data) ==
    IF i < 2 THEN data
    ELSE LET base == w.impl[mro[i]]
             base_next == w.impl[mro[i - 1]]
             updated == DictUpdate(data, SelfOf(base, k))
             keys == (DOMAIN updated) \ (DOMAIN SelfOf(base_next, k))
         IN BaseMembersLoop_SameKind(w, mro, k, i - 1, Restrict(updated, keys))

\* The loop of BaseMembers._update_data over zip(bases, bases[1:]) with
\* bases = reversed(mro): step i folds in mro[i] and filters by mro[i-1].
RECURSIVE BaseMembersLoop(_, _, _, _, _)
BaseMembersLoop(w, mro, k, i, data) ==
    IF i < 2 THEN data
    ELSE LET base == w.impl[mro[i]]
             base_next == w.impl[mro[i - 1]]
             updated == DictUpdate(data, SelfOf(base, k))
             keys == (DOMAIN updated) \ (DOMAIN self_members(base_next))
         IN BaseMembersLoop(w, mro, k, i - 1, Restrict(updated, keys))

BaseMembers_update_data(w, s, k) ==
    BaseMembersLoop(w, w.impl[s].mro, k, Len(w.impl[s].mro), EmptyMap)

SetBase(w, s, k, data) ==
    CASE k = "cells" -> SetField(w, s, "base_cells", data)
      [] k = "spaces" -> SetField(w, s, "base_spaces", data)
      [] k = "refs" -> SetField(w, s, "base_refs", data)

SetDerived(w, s, k, data) ==
    CASE k = "cells" -> SetField(w, s, "derived_cells", data)
      [] k = "spaces" -> SetField(w, s, "derived_spaces", data)
      [] k = "refs" -> SetField(w, s, "derived_refs", data)

\* LazyEvalDict.update_data of the BaseMembers of kind k of space s.
\* Reading base_next.self_members brings the _self_members of every space
\* of the mro but the last up to date.
UpdBase(w, s, k) ==
    IF ~ IsDirty(w, s, BaseName(k)) THEN w
    ELSE LET mro == w.impl[s].mro
             nexts == {mro[i] : i \in 1..(Len(mro) - 1)}
             cleared == [w EXCEPT !.impl = [t \in DOMAIN w.impl |->
                            [w.impl[t] EXCEPT !.dirty =
                                (@ \ (IF t = s THEN {BaseName(k)} ELSE {}))
                                   \ (IF t \in nexts THEN {"self_members"} ELSE {})]]]
         IN SetBase(cleared, s, k, BaseMembers_update_data(w, s, k))

\* ---------------------------------------------------------------------
\* SpaceImpl.__init__, from the test of the name on; the caller has read
\* parent.spaces.

NewImplRecord(name, parent, bases, direct_bases, mro, paramfunc, arguments) ==
    [name |-> name, parent |-> parent, declared_bases |-> bases,
     direct_bases |-> direct_bases, mro |-> mro,
     paramfunc |-> paramfunc, arguments |-> arguments,
     spacenamer |-> 0, param_spaces |-> [key \in {} |-> 0],
     self_cells |-> EmptyMap, self_spaces |-> EmptyMap, self_refs |-> EmptyMap,
     dynamic_spaces |-> EmptyMap,
     global_refs |-> [n \in GlobalNames |-> RefObj(0)],
     base_cells |-> EmptyMap, base_spaces |-> EmptyMap, base_refs |-> EmptyMap,
     derived_cells |-> EmptyMap, derived_spaces |-> EmptyMap, derived_refs |-> EmptyMap,
     namespace |-> EmptyMap,
     dirty |-> IF Len(mro) > 1 THEN LazyNames
               ELSE LazyNames \ {"base_cells", "base_spaces", "base_refs"}]

is_dynamic(sp) == sp.arguments # <<>>

\* A registration that leaves a space with arguments out of its parent.
RegisterInParent_StaticOnly(w, parent, name, id, dynamic) ==
    IF parent = Model THEN [w EXCEPT !.root = Put(@, name, SpaceObj(id))]
    ELSE IF dynamic
         THEN w
         ELSE SetField(w, parent, "self_spaces",
                       Put(w.impl[parent].self_spaces, name, SpaceObj(id)))

\* The last statements of __init__: the new space is stored in its parent.
RegisterInParent(w, parent, name, id, dynamic) ==
    IF parent = Model THEN [w EXCEPT !.root = Put(@, name, SpaceObj(id))]
    ELSE IF dynamic
         THEN SetField(w, parent, "dynamic_spaces",
                       Put(w.impl[parent].dynamic_spaces, name, SpaceObj(id)))
         ELSE SetField(w, parent, "self_spaces",
                       Put(w.impl[parent].self_spaces, name, SpaceObj(id)))

\* An __init__ that stores the new space in its parent as soon as the
\* name is found free, before the other tests.
SpaceImpl_init_RegisterFirst(w, parent, name, bases, paramfunc, arguments) ==
    IF name \in DOMAIN SpacesOfContainer(w, parent)
    THEN Raise(w, "ValueError: Name already assigned.")
    ELSE Bind(RegisterInParent(
                 [w EXCEPT !.impl = [t \in (DOMAIN w.impl) \cup {Cardinality(Ids(w)) + 1} |->
                     IF t = Cardinality(Ids(w)) + 1
                     THEN NewImplRecord(name, parent, bases, bases,
                                        <<Cardinality(Ids(w)) + 1>>, paramfunc, arguments)
                     ELSE w.impl[t]]],
                 parent, name, Cardinality(Ids(w)) + 1, arguments # <<>>),
              LAMBDA w0 :
        IF ~ is_valid_name(name)
        THEN Raise(w0, "ValueError: Invalid name")
        ELSE IF \E i \in 1..Len(bases) : bases[i] \notin Ids(w)
        THEN Raise(w0, "TypeError: bases must be space(s).")
        ELSE Bind(update_mro(w, Cardinality(Ids(w)) + 1, bases), LAMBDA m :
            LET id == Cardinality(Ids(w)) + 1
                rec == NewImplRecord(name, parent, bases, m.direct_bases,
                                     m.mro, paramfunc, arguments)
                w1 == [w EXCEPT !.impl = [t \in (DOMAIN w.impl) \cup {id} |->
                                            IF t = id THEN rec ELSE w.impl[t]]]
            IN IF ~ m.ok
               THEN Raise(w0, "TypeError: inconsistent hierarchy, no C3 MRO is possible")
               ELSE IF id > MaxSpaces THEN Raise(w, OutOfBound)
               ELSE Ok(RegisterInParent(
                          UpdBase(UpdBase(UpdBase(w1, id, "cells"), id, "spaces"), id, "refs"),
                          parent, name, id, is_dynamic(rec)), id)))

SpaceImpl_init(w, parent, name, bases, paramfunc, arguments) ==
    IF name \in DOMAIN SpacesOfContainer(w, parent)
    THEN Raise(w, "ValueError: Name already assigned.")
    ELSE IF ~ is_valid_name(name)
    THEN Raise(w, "ValueError: Invalid name")
    ELSE IF \E i \in 1..Len(bases) : bases[i] \notin Ids(w)
    THEN Raise(w, "TypeError: bases must be space(s).")
    ELSE Bind(update_mro(w, Cardinality(Ids(w)) + 1, bases), LAMBDA m :
            LET id == Cardinality(Ids(w)) + 1
                rec == NewImplRecord(name, parent, bases, m.direct_bases,
                                     m.mro, paramfunc, arguments)
                w1 == [w EXCEPT !.impl = [t \in (DOMAIN w.impl) \cup {id} |->
                                            IF t = id THEN rec ELSE w.impl[t]]]
            IN IF ~ m.ok
               THEN Raise(w, "TypeError: inconsistent hierarchy, no C3 MRO is possible")
               ELSE IF id > MaxSpaces THEN Raise(w, OutOfBound)
               ELSE Ok(RegisterInParent(
                          UpdBase(UpdBase(UpdBase(w1, id, "cells"), id, "spaces"), id, "refs"),
                          parent, name, id, is_dynamic(rec)), id))

\* ---------------------------------------------------------------------
\* DerivedMembers

\* The loop of _update_data_cells over base_members.items(), keys being the
\* keys of base_members in iteration order.
RECURSIVE DerivedCellsLoop(_, _, _, _)
DerivedCellsLoop(data, base_members, s, keys) ==
    IF keys = <<>> THEN data
    ELSE LET key == Head(keys)
             base_cell == base_members[key]
         IN IF key \in DOMAIN data /\ data[key].a = base_cell.a
            THEN data
            ELSE DerivedCellsLoop(Put(data, key, CellObj(base_cell.a, s, 0, base_cell.d)),
                                  base_members, s, Tail(keys))

update_data_cells(w, s, ord) ==
    Bind(UpdBase(w, s, "cells"), LAMBDA w1 :
        LET base_members == w1.impl[s].base_cells
            kept == Restrict(w1.impl[s].derived_cells, DOMAIN base_members)
        IN SetField(w1, s, "derived_cells",
                    DerivedCellsLoop(kept, base_members, s, KeysInOrder(base_members, ord))))

\* The loop of _update_data_spaces. SpaceImpl.__init__ reads parent.spaces
\* for has_space: the flags of _spaces and _static_spaces of s are already
\* cleared when this runs, so that read does not recompute.
RECURSIVE DerivedSpacesLoop(_, _, _, _)
DerivedSpacesLoop(w, s, base_members, keys) ==
    IF keys = <<>> THEN Ok(w, 0)
    ELSE LET base_space == w.impl[base_members[Head(keys)].a]
         IN Bind(SpaceImpl_init(w, s, base_space.name, base_space.direct_bases,
                                base_space.paramfunc, <<>>),
                 LAMBDA r :
                    IF ~ r.ok THEN r
                    ELSE DerivedSpacesLoop(
                            SetField(r.w, s, "derived_spaces",
                                     Put(r.w.impl[s].derived_spaces, base_space.name,
                                         SpaceObj(r.ret))),
                            s, base_members, Tail(keys)))

update_data_spaces(w, s, ord) ==
    Bind(UpdBase(SetField(w, s, "derived_spaces", EmptyMap), s, "spaces"), LAMBDA w1 :
        DerivedSpacesLoop(w1, s, w1.impl[s].base_spaces,
                          KeysInOrder(w1.impl[s].base_spaces, ord)))

update_data_refs(w, s) ==
    Bind(UpdBase(SetField(w, s, "derived_refs", EmptyMap), s, "refs"), LAMBDA w1 :
        SetField(w1, s, "derived_refs", w1.impl[s].base_refs))

\* update_data of the DerivedMembers of kind k: when flagged, the flag is
\* cleared and _update_data runs.
UpdDerived(w, s, k, ord) ==
    IF ~ IsDirty(w, s, DerivedName(k)) THEN Ok(w, 0)
    ELSE LET w0 == ClearFlag(w, s, DerivedName(k))
         IN CASE k = "cells" -> Ok(update_data_cells(w0, s, ord), 0)
              [] k = "spaces" -> update_data_spaces(w0, s, ord)
              [] k = "refs" -> Ok(update_data_refs(w0, s), 0)

\* ---------------------------------------------------------------------
\* The chain maps of a space: update_data brings the maps of the chain up
\* to date.

UpdCells(w, s, ord) ==
    IF ~ IsDirty(w, s, "cells") THEN w
    ELSE UpdDerived(ClearFlag(w, s, "cells"), s, "cells", ord).w

UpdStaticSpaces(w, s, ord) ==
    IF ~ IsDirty(w, s, "static_spaces") THEN Ok(w, 0)
    ELSE UpdDerived(ClearFlag(w, s, "static_spaces"), s, "spaces", ord)

UpdSpaces(w, s, ord) ==
    IF ~ IsDirty(w, s, "spaces") THEN Ok(w, 0)
    ELSE UpdStaticSpaces(ClearFlag(w, s, "spaces"), s, ord)

UpdRefs(w, s, ord) ==
    IF ~ IsDirty(w, s, "refs") THEN w
    ELSE UpdDerived(ClearFlag(w, s, "refs"), s, "refs", ord).w

UpdNamespaceImpl(w, s, ord) ==
    IF ~ IsDirty(w, s, "namespace_impl") THEN Ok(w, 0)
    ELSE Bind(UpdSpaces(UpdCells(ClearFlag(w, s, "namespace_impl"), s, ord), s, ord),
              LAMBDA r : IF ~ r.ok THEN r ELSE Ok(UpdRefs(r.w, s, ord), 0))

\* A NameSpaceDict._update_data that merges the refs first and the cells
\* last.
NameSpaceDict_update_data_CellsLast(w, s, ord) ==
    Bind(UpdNamespaceImpl(w, s, ord), LAMBDA r :
      IF ~ r.ok THEN r
      ELSE Bind(UpdCells(r.w, s, ord), LAMBDA w1 :
           Bind(UpdSpaces(w1, s, ord), LAMBDA r2 :
             IF ~ r2.ok THEN r2
             ELSE Bind(UpdRefs(r2.w, s, ord), LAMBDA w3 :
                    Ok(SetField(w3, s, "namespace",
                                DictUpdate(DictUpdate(refs(w3.impl[s]), spaces(w3.impl[s])),
                                           cells(w3.impl[s]))), 0)))))

\* NameSpaceDict._update_data
NameSpaceDict_update_data(w, s, ord) ==
    Bind(UpdNamespaceImpl(w, s, ord), LAMBDA r :
      IF ~ r.ok THEN r
      ELSE Bind(UpdCells(r.w, s, ord), LAMBDA w1 :
           Bind(UpdSpaces(w1, s, ord), LAMBDA r2 :
             LET data1 == DictUpdate(EmptyMap, cells(w1.impl[s]))
             IN IF ~ r2.ok THEN Raise(SetField(r2.w, s, "namespace", data1), r2.err)
                ELSE Bind(UpdRefs(r2.w, s, ord), LAMBDA w3 :
                       Ok(SetField(w3, s, "namespace",
                                   DictUpdate(DictUpdate(data1, spaces(r2.w.impl[s])),
                                              refs(w3.impl[s]))), 0)))))

\* The namespace property: NameSpaceDict.get_updated_data
UpdNamespace(w, s, ord) ==
    IF ~ IsDirty(w, s, "namespace") THEN Ok(w, 0)
    ELSE NameSpaceDict_update_data(ClearFlag(w, s, "namespace"), s, ord)

\* The spaces property of a container
ReadSpacesOf(w, p, ord) == IF p = Model THEN Ok(w, 0) ELSE UpdSpaces(w, p, ord)

\* ---------------------------------------------------------------------
\* SpaceContainerImpl.new_space

\* AutoNamer.get_next
get_next(namer) == AutoNames[namer + 1]

Namer(w, p) == IF p = Model THEN w.rootnamer ELSE w.impl[p].spacenamer

AdvanceNamer(w, p) ==
    IF p = Model THEN [w EXCEPT !.rootnamer = @ + 1]
    ELSE SetField(w, p, "spacenamer", w.impl[p].spacenamer + 1)

new_space(w, parent, name, bases, paramfunc, arguments, ord) ==
    Bind(ReadSpacesOf(w, parent, ord), LAMBDA r :
       IF ~ r.ok THEN r
       ELSE IF name = NoName /\ Namer(r.w, parent) >= Len(AutoNames)
       THEN Raise(r.w, OutOfBound)
       ELSE SpaceImpl_init(IF name = NoName THEN AdvanceNamer(r.w, parent) ELSE r.w,
                           parent,
                           IF name = NoName THEN get_next(Namer(r.w, parent)) ELSE name,
                           bases, paramfunc, arguments))

\* ---------------------------------------------------------------------
\* SpaceImpl.new_cells, set_cells

set_cells(w, s, name, cell) ==
    set_update(SetField(w, s, "self_cells", Put(w.impl[s].self_cells, name, cell)),
               s, "self_cells", TRUE)

\* CellsImpl(space, name, func) followed by set_cells. The constructor
\* rejects an invalid name and a name that the merged namespace of the
\* space already has, unless the name is there as a derived cells only.
\* formula = 0 stands for a function, from which a new Formula is made.
new_cells(w, s, name, formula, params, ord) ==
    IF ~ is_valid_name(name) THEN Raise(w, "ValueError: Invalid name")
    ELSE Bind(UpdNamespaceImpl(w, s, ord), LAMBDA r :
            IF ~ r.ok THEN r
            ELSE LET sp == r.w.impl[s]
                     taken == (DOMAIN namespace_impl(sp))
                                 \ ((DOMAIN sp.derived_cells) \ (DOMAIN sp.self_cells))
                 IN IF name \in taken THEN Raise(r.w, "ValueError: Name already assigned.")
                    ELSE IF formula = 0 /\ r.w.nformula >= MaxFormulas THEN Raise(r.w, OutOfBound)
                    ELSE LET f == IF formula = 0 THEN r.w.nformula + 1 ELSE formula
                             w1 == IF formula = 0 THEN [r.w EXCEPT !.nformula = f] ELSE r.w
                         IN Ok(set_cells(w1, s, name, CellObj(f, s, 0, params)), f))

\* ---------------------------------------------------------------------
\* SpaceImpl.set_name

set_name(w, s, name, value, ord) ==
    IF ~ is_valid_name(name) THEN Raise(w, "ValueError")
    ELSE Bind(UpdNamespace(w, s, ord), LAMBDA r :
       IF ~ r.ok THEN r
       ELSE IF name \in DOMAIN r.w.impl[s].namespace
       THEN Bind(UpdRefs(r.w, s, ord), LAMBDA w1 :
              IF name \in DOMAIN refs(w1.impl[s])
              THEN Ok(set_update(SetField(w1, s, "global_refs",
                                          Put(w1.impl[s].global_refs, name, RefObj(value))),
                                 s, "refs", FALSE), 0)
              ELSE Bind(UpdCells(w1, s, ord), LAMBDA w2 :
                     LET sp == w2.impl[s]
                     IN IF name \in DOMAIN cells(sp)
                        THEN IF cells(sp)[name].d = 0
                             THEN IF name \in DOMAIN sp.self_cells
                                  THEN Ok(SetField(w2, s, "self_cells",
                                            Put(sp.self_cells, name,
                                                [sp.self_cells[name] EXCEPT !.c = value])), 0)
                                  ELSE Ok(SetField(w2, s, "derived_cells",
                                            Put(sp.derived_cells, name,
                                                [sp.derived_cells[name] EXCEPT !.c = value])), 0)
                             ELSE Raise(w2, "AttributeError: Cells is not a scalar.")
                        ELSE Raise(w2, "ValueError")))
       ELSE Ok(set_update(SetField(r.w, s, "self_refs",
                                   Put(r.w.impl[s].self_refs, name, RefObj(value))),
                          s, "self_refs", TRUE), 0))

\* ---------------------------------------------------------------------
\* SpaceImpl.remove_cells

remove_cells(w, s, name, ord) ==
    LET w1 == IF name \in DOMAIN w.impl[s].self_cells
              THEN SetField(w, s, "self_cells", Del(w.impl[s].self_cells, name))
              ELSE w
        direct_bases == w.impl[s].direct_bases
    IN IF direct_bases = <<>> THEN Ok(w1, 0)
       ELSE Bind(UpdCells(w1, direct_bases[1], ord), LAMBDA w2 :
              IF name \notin DOMAIN cells(w2.impl[direct_bases[1]]) THEN Ok(w2, 0)
              ELSE LET base_cells == cells(w2.impl[direct_bases[1]])[name]
                   IN Bind(new_cells(w2, s, name, base_cells.a, base_cells.d, ord),
                           LAMBDA r :
                              IF ~ r.ok THEN r
                              ELSE Ok(SetField(r.w, s, "derived_cells",
                                               Put(r.w.impl[s].derived_cells, name,
                                                   r.w.impl[s].self_cells[name])), 0)))

\* ---------------------------------------------------------------------
\* SpaceImpl.remove_derived; ret = 1 for True, 0 for False

remove_derived(w, s, name, ord) ==
    Bind(UpdNamespace(w, s, ord), LAMBDA r :
       IF ~ r.ok THEN r
       ELSE LET sp == r.w.impl[s]
            IN IF name \in DOMAIN sp.namespace
               THEN IF name \in DOMAIN sp.derived_cells
                    THEN Ok(SetField(r.w, s, "derived_cells", Del(sp.derived_cells, name)), 1)
                    ELSE IF name \in DOMAIN sp.derived_spaces
                    THEN Ok(SetField(r.w, s, "derived_spaces", Del(sp.derived_spaces, name)), 1)
                    ELSE IF name \in DOMAIN sp.derived_refs
                    THEN Ok(SetField(r.w, s, "derived_refs", Del(sp.derived_refs, name)), 1)
                    ELSE Raise(r.w, "RuntimeError: Name already assigned.")
               ELSE Ok(r.w, 0))

\* ---------------------------------------------------------------------
\* SpaceContainerImpl.get_space

\* ObjectArgs: the arguments bound to the signature of the parameter
\* formula, which has the one parameter a; kw = 0 when a is not given by
\* keyword.
BindOk(args, kw) == (Len(args) = 1 /\ kw = 0) \/ (Len(args) = 0 /\ kw # 0)

argvalues(args, kw) == IF Len(args) = 1 THEN args ELSE <<kw>>

RECURSIVE get_space(_, _, _, _, _)

Seen(w) == [w EXCEPT !.seen = Append(@, w.self)]

\* The code of the parameter formula pf_nested, run in the namespace of s
\* with argument values argv: x(a) is Space.__call__, that is get_space
\* of the space the name x stands for. A reference is not callable.
call_nested(w, s, argv, ord) ==
    IF "x" \notin DOMAIN w.impl[s].namespace
    THEN Raise(w, "NameError")
    ELSE IF w.impl[s].namespace["x"].kind # "spaces"
    THEN Raise(w, "TypeError: not callable")
    ELSE Bind(get_space(w, w.impl[s].namespace["x"].a, argv, 0, ord), LAMBDA g :
            IF ~ g.ok THEN g ELSE Ok(Seen(g.w), NoName))

\* SpaceArgs.eval_formula: what the parameter formula returns, as the
\* name it gives for the new space.
eval_formula(w, s, argv, ord) ==
    Bind(UpdNamespace(w, s, ord), LAMBDA r :
       IF ~ r.ok THEN r
       ELSE CASE w.impl[s].paramfunc = "pf_none" -> Ok(Seen(r.w), NoName)
              [] w.impl[s].paramfunc = "pf_name" -> Ok(Seen(r.w), "y")
              [] w.impl[s].paramfunc = ParamFuncSelf -> Ok(Seen(r.w), NoName)
              [] w.impl[s].paramfunc = ParamFuncNested ->
                    call_nested(Seen(r.w), s, argv, ord)
              [] OTHER -> Raise(Seen(r.w), "Error raised by the parameter formula"))

\* The bases that the parameter formula of s returns for the new space.
space_args_bases(w, s, argv) ==
    CASE w.impl[s].paramfunc = ParamFuncSelf -> <<s>>
      [] w.impl[s].paramfunc = ParamFuncNested ->
            <<w.impl[w.impl[s].namespace["x"].a].param_spaces[argv]>>
      [] OTHER -> <<>>

\* The try statement of get_space: system.self is s while the parameter
\* formula is evaluated, and is last_self again when the statement is
\* left, by return or by exception.
try_eval_formula_NoFinally(w, s, argv, ord) ==
    Bind(eval_formula([w EXCEPT !.self = s], s, argv, ord), LAMBDA e :
        IF e.ok THEN [e EXCEPT !.w.self = w.self] ELSE e)

try_eval_formula(w, s, argv, ord) ==
    Bind(eval_formula([w EXCEPT !.self = s], s, argv, ord), LAMBDA e :
        [e EXCEPT !.w.self = w.self])

\* A get_space that keeps an entry for the arguments in param_spaces when
\* the parameter formula or the construction of the child has raised.
get_space_CacheFailure(w, s, args, kw, ord) ==
    IF w.impl[s].paramfunc = NoParamFunc THEN Raise(w, "AttributeError: paramfunc is None")
    ELSE IF ~ BindOk(args, kw) THEN Raise(w, "TypeError: arguments do not match the signature")
    ELSE IF argvalues(args, kw) \in DOMAIN w.impl[s].param_spaces
    THEN Ok(w, w.impl[s].param_spaces[argvalues(args, kw)])
    ELSE Bind(try_eval_formula(w, s, argvalues(args, kw), ord), LAMBDA e :
            Bind(IF ~ e.ok THEN e
                 ELSE new_space(e.w, s, e.ret,
                                space_args_bases(e.w, s, argvalues(args, kw)),
                                NoParamFunc, argvalues(args, kw), ord),
                 LAMBDA r :
                    [r EXCEPT !.w = SetField(r.w, s, "param_spaces",
                                    [k \in (DOMAIN r.w.impl[s].param_spaces)
                                              \cup {argvalues(args, kw)} |->
                                        IF k = argvalues(args, kw) THEN r.ret
                                        ELSE r.w.impl[s].param_spaces[k]])]))

\* A get_space that does not look the arguments up in param_spaces.
get_space_NoLookup(w, s, args, kw, ord) ==
    IF w.impl[s].paramfunc = NoParamFunc THEN Raise(w, "AttributeError: paramfunc is None")
    ELSE IF ~ BindOk(args, kw) THEN Raise(w, "TypeError: arguments do not match the signature")
    ELSE Bind(try_eval_formula(w, s, argvalues(args, kw), ord), LAMBDA e :
            IF ~ e.ok THEN e
            ELSE Bind(new_space(e.w, s, e.ret,
                                space_args_bases(e.w, s, argvalues(args, kw)),
                                NoParamFunc, argvalues(args, kw), ord),
                      LAMBDA r :
                         IF ~ r.ok THEN r
                         ELSE Ok(SetField(r.w, s, "param_spaces",
                                    [k \in (DOMAIN r.w.impl[s].param_spaces)
                                              \cup {argvalues(args, kw)} |->
                                        IF k = argvalues(args, kw) THEN r.ret
                                        ELSE r.w.impl[s].param_spaces[k]]),
                                 r.ret)))

get_space(w, s, args, kw, ord) ==
    IF w.impl[s].paramfunc = NoParamFunc THEN Raise(w, "AttributeError: paramfunc is None")
    ELSE IF ~ BindOk(args, kw) THEN Raise(w, "TypeError: arguments do not match the signature")
    ELSE IF argvalues(args, kw) \in DOMAIN w.impl[s].param_spaces
    THEN Ok(w, w.impl[s].param_spaces[argvalues(args, kw)])
    ELSE Bind(try_eval_formula(w, s, argvalues(args, kw), ord), LAMBDA e :
            IF ~ e.ok THEN e
            ELSE Bind(new_space(e.w, s, e.ret,
                                space_args_bases(e.w, s, argvalues(args, kw)),
                                NoParamFunc, argvalues(args, kw), ord),
                      LAMBDA r :
                         IF ~ r.ok THEN r
                         ELSE Ok(SetField(r.w, s, "param_spaces",
                                    [k \in (DOMAIN r.w.impl[s].param_spaces)
                                              \cup {argvalues(args, kw)} |->
                                        IF k = argvalues(args, kw) THEN r.ret
                                        ELSE r.w.impl[s].param_spaces[k]]),
                                 r.ret)))

\* ---------------------------------------------------------------------
\* SpaceContainerImpl.set_paramfunc

\* A set_paramfunc that replaces a parameter formula already assigned.
set_paramfunc_Overwrite(w, s, paramfunc) ==
    Ok(SetField(w, s, "paramfunc", paramfunc), 0)

set_paramfunc(w, s, paramfunc) ==
    IF w.impl[s].paramfunc = NoParamFunc THEN Ok(SetField(w, s, "paramfunc", paramfunc), 0)
    ELSE Raise(w, "ValueError: paramfunc already assigned.")

\* ---------------------------------------------------------------------
\* Reading the mappings of a space

read(w, s, what, ord) ==
    CASE what = "cells" -> Ok(UpdCells(w, s, ord), 0)
      [] what = "spaces" -> UpdSpaces(w, s, ord)
      [] what = "refs" -> Ok(UpdRefs(w, s, ord), 0)
      [] what = "namespace" -> UpdNamespace(w, s, ord)

\* ---------------------------------------------------------------------
\* Cells: the call of a cells and the evaluation of its formula

\* The formulas of the cells foo that are evaluated, as Formula objects:
\*   def foo(i): return y
\*   def foo(i): return x.y
\*   def foo(i): return x[1].y
FormulaOwn == 11
FormulaChild == 12
FormulaParam == 13

Formulas == {FormulaOwn, FormulaChild, FormulaParam}

\* Space.__getattr__, and the lookup of a global name by a formula that
\* runs with the namespace of the space as its globals: namespace[name].
\* ret is the member found.
getattr(w, s, name, ord) ==
    Bind(UpdNamespace(w, s, ord), LAMBDA r :
       IF ~ r.ok THEN r
       ELSE IF name \in DOMAIN r.w.impl[s].namespace
       THEN Ok(r.w, r.w.impl[s].namespace[name])
       ELSE Raise(r.w, "KeyError"))

\* A value and the lazy objects it was read from.
Value(v, deps) == [v |-> v, deps |-> deps]

\* x.y, for the member x found in the namespace of space s
getattr_of_member(w, s, x, ord, deps) ==
    IF x.kind # "spaces" THEN Raise(w, "AttributeError")
    ELSE Bind(getattr(w, x.a, "y", ord), LAMBDA r :
            IF ~ r.ok THEN r
            ELSE Ok(r.w, Value(r.ret.a, deps \cup {<<x.a, "namespace">>})))

\* The formula f run with the namespace of space s. ret is the value
\* returned, with the namespaces that were read.
call_formula(w, s, f, ord) ==
    CASE f = FormulaOwn ->
           Bind(getattr(w, s, "y", ord), LAMBDA r :
              IF ~ r.ok THEN r
              ELSE Ok(r.w, Value(r.ret.a, {<<s, "namespace">>})))
      [] f = FormulaChild ->
           Bind(getattr(w, s, "x", ord), LAMBDA r :
              IF ~ r.ok THEN r
              ELSE getattr_of_member(r.w, s, r.ret, ord, {<<s, "namespace">>}))
      [] f = FormulaParam ->
           Bind(getattr(w, s, "x", ord), LAMBDA r :
              IF ~ r.ok THEN r
              ELSE IF r.ret.kind # "spaces" THEN Raise(r.w, "TypeError")
              ELSE Bind(get_space(r.w, r.ret.a, <<1>>, 0, ord), LAMBDA g :
                     IF ~ g.ok THEN g
                     ELSE getattr_of_member(g.w, s, SpaceObj(g.ret), ord,
                             {<<s, "namespace">>, <<r.ret.a, "namespace">>})))
      [] OTHER -> Ok(w, Value(0, {}))

PutValue(store, args, val) ==
    [k \in (DOMAIN store) \cup {args} |-> IF k = args THEN val ELSE store[k]]

\* The value val is stored for args in the cells name of space s.
StoreValue(w, s, name, args, val) ==
    LET sp == w.impl[s]
    IN IF name \in DOMAIN sp.self_cells
       THEN SetField(w, s, "self_cells",
                     Put(sp.self_cells, name,
                         [sp.self_cells[name] EXCEPT !.e = PutValue(@, args, val)]))
       ELSE IF name \in DOMAIN sp.derived_cells
       THEN SetField(w, s, "derived_cells",
                     Put(sp.derived_cells, name,
                         [sp.derived_cells[name] EXCEPT !.e = PutValue(@, args, val)]))
       ELSE w

\* CellsImpl.get_value of the cells name of space s: the value stored for
\* args if there is one, else the value of the formula, which is then
\* stored for args. An evaluation that raises stores nothing.
get_value(w, s, name, args, ord) ==
    LET cell == cells(w.impl[s])[name]
    IN IF cell.d = 0 /\ cell.c # 0 THEN Ok(w, cell.c)
       ELSE IF Len(args) # cell.d THEN Raise(w, "TypeError")
       ELSE IF args \in DOMAIN cell.e THEN Ok(w, cell.e[args].v)
       ELSE Bind(call_formula(w, s, cell.a, ord), LAMBDA r :
              IF ~ r.ok THEN r
              ELSE Ok(StoreValue(r.w, s, name, args, r.ret), r.ret.v))

\* space.name(*args): Space.__getattr__ followed by Cells.__call__
call(w, s, name, args, ord) ==
    Bind(getattr(w, s, name, ord), LAMBDA r :
       IF ~ r.ok THEN r
       ELSE IF r.ret.kind # "cells" \/ name \notin DOMAIN cells(r.w.impl[s])
       THEN Raise(r.w, "TypeError")
       ELSE get_value(r.w, s, name, args, ord))

\* ---------------------------------------------------------------------
\* Serialization by pickle: __getstate__, __setstate__, restore_state

\* A state_attrs that leaves out param_spaces.
state_attrs_NoParamSpaces ==
    {"direct_bases", "mro", "_self_cells", "_derived_cells", "_cells",
     "_self_spaces", "_derived_spaces", "_static_spaces", "_dynamic_spaces",
     "_global_refs", "_arguments", "_self_refs", "_derived_refs", "_refs",
     "_self_members", "_observed_bases", "_namespace_impl", "_namespace",
     "cellsnamer", "name", "parent",
     "_spaces", "spacenamer", "paramfunc"}

\* SpaceImpl.state_attrs, with those of SpaceContainerImpl
state_attrs ==
    {"direct_bases", "mro", "_self_cells", "_derived_cells", "_cells",
     "_self_spaces", "_derived_spaces", "_static_spaces", "_dynamic_spaces",
     "_global_refs", "_arguments", "_self_refs", "_derived_refs", "_refs",
     "_self_members", "_observed_bases", "_namespace_impl", "_namespace",
     "cellsnamer", "name", "parent",
     "_spaces", "param_spaces", "spacenamer", "paramfunc"}

\* The attribute of a SpaceImpl that holds each field of its record; the
\* members of the bases are held by the DerivedMembers objects, and
\* declared_bases records the list that direct_bases was. The flags of
\* dirty go with their lazy objects, see LazyAttr.
AttrOf ==
    [name |-> "name", parent |-> "parent", declared_bases |-> "direct_bases",
     direct_bases |-> "direct_bases", mro |-> "mro", paramfunc |-> "paramfunc",
     arguments |-> "_arguments", spacenamer |-> "spacenamer",
     param_spaces |-> "param_spaces",
     self_cells |-> "_self_cells", self_spaces |-> "_self_spaces",
     self_refs |-> "_self_refs", dynamic_spaces |-> "_dynamic_spaces",
     global_refs |-> "_global_refs",
     base_cells |-> "_derived_cells", base_spaces |-> "_derived_spaces",
     base_refs |-> "_derived_refs",
     derived_cells |-> "_derived_cells", derived_spaces |-> "_derived_spaces",
     derived_refs |-> "_derived_refs",
     namespace |-> "_namespace", dirty |-> "name"]

\* The attribute that holds each lazy object, and with it its flag.
LazyAttr ==
    [self_members |-> "_self_members",
     base_cells |-> "_derived_cells", base_spaces |-> "_derived_spaces",
     base_refs |-> "_derived_refs",
     derived_cells |-> "_derived_cells", derived_spaces |-> "_derived_spaces",
     derived_refs |-> "_derived_refs",
     cells |-> "_cells", static_spaces |-> "_static_spaces", spaces |-> "_spaces",
     refs |-> "_refs", namespace_impl |-> "_namespace_impl",
     namespace |-> "_namespace"]

\* The string '__builtins__', which stands in the namespace for the
\* builtins while the state is pickled.
BuiltinsStr == RefObj(0 - 1)

SetBuiltins(namespace, v) ==
    IF "__builtins__" \in DOMAIN namespace THEN Put(namespace, "__builtins__", v)
    ELSE namespace

\* What __getstate__ does to the objects of the space on its way: state
\* holds the very objects that the attributes of the space hold.
getstate_effect(rec) ==
    [rec EXCEPT !.global_refs = EmptyMap,
                !.namespace = SetBuiltins(@, BuiltinsStr)]

\* SpaceImpl.__getstate__: the attributes of state_attrs, as pickled.
getstate(rec) ==
    [f \in {g \in DOMAIN rec : AttrOf[g] \in state_attrs} |->
        IF f = "dirty" THEN {c \in rec.dirty : LazyAttr[c] \in state_attrs}
        ELSE getstate_effect(rec)[f]]

\* An object that pickle has made without calling __init__, as a record:
\* no attribute holds anything.
Blank ==
    [NewImplRecord(NoName, Model, <<>>, <<>>, <<>>, NoParamFunc, <<>>)
        EXCEPT !.global_refs = EmptyMap, !.dirty = {}]

\* SpaceImpl.__setstate__ on such an object
setstate(state) ==
    LET rec == [f \in DOMAIN Blank |-> IF f \in DOMAIN state THEN state[f] ELSE Blank[f]]
    IN [rec EXCEPT !.global_refs = DictUpdate(@, [n \in GlobalNames |-> RefObj(0)]),
                   !.namespace = SetBuiltins(@, RefObj(0))]

\* pickle.dumps of the model: every space of it is reached and its
\* __getstate__ called. live is what the objects are afterwards, blob the
\* states pickled.
dumps(w) ==
    [live |-> [w EXCEPT !.impl = [t \in DOMAIN w.impl |-> getstate_effect(w.impl[t])]],
     blob |-> [t \in DOMAIN w.impl |-> getstate(w.impl[t])]]

\* pickle.loads followed by restore_state: the spaces made from the blob
loads(w, blob) == [w EXCEPT !.impl = [t \in DOMAIN blob |-> setstate(blob[t])]]

\* ---------------------------------------------------------------------
\* Operations

\* The outcome of the last operation: its name, the space it was called
\* on, its name argument, its other argument (the bases of new_space,
\* the argument values of get_space), and what it returned or raised.
Result(op, s, name, arg, r) ==
    [op |-> op, space |-> s, name |-> name, arg |-> arg,
     ok |-> r.ok, err |-> r.err, ret |-> r.ret]

InitResult ==
    [op |-> "init", space |-> 0, name |-> NoName, arg |-> <<>>,
     ok |-> TRUE, err |-> "", ret |-> 0]

Commit(w) ==
    /\ impl' = w.impl
    /\ model_spaces' = w.root
    /\ model_namer' = w.rootnamer
    /\ nformula' = w.nformula
    /\ system_self' = w.self
    /\ self_seen' = w.seen

Step(op, s, name, arg, r) ==
    /\ r.err # OutOfBound
    /\ Commit(r.w)
    /\ result' = Result(op, s, name, arg, r)
    /\ nops' = nops + 1

EmptyWorld == [impl |-> <<>>, root |-> EmptyMap, rootnamer |-> 0, nformula |-> 0,
               self |-> Model, seen |-> <<>>]

InitFrom(w) ==
    /\ impl = w.impl
    /\ model_spaces = w.root
    /\ model_namer = w.rootnamer
    /\ nformula = w.nformula
    /\ system_self = w.self
    /\ self_seen = <<>>
    /\ nops = 0
    /\ result = InitResult

Init == InitFrom(EmptyWorld)

\* ---------------------------------------------------------------------
\* Specification SpecMro: spaces created in the model with lists of bases

BaseLists ==
    {<<>>} \cup {<<b>> : b \in Ids(World) \cup {Model}}
           \cup {<<b1, b2>> : b1 \in Ids(World), b2 \in Ids(World)}

\* model.new_space(bases=bases), named automatically
NewTopSpace ==
    /\ nops < MaxMroOps
    /\ \E bases \in BaseLists :
        Step("new_space", Model, NoName, bases,
             new_space(World, Model, NoName, bases, NoParamFunc, <<>>, <<"x", "y">>))

NextMro == NewTopSpace

SpecMro == Init /\ [][NextMro]_vars

\* ---------------------------------------------------------------------
\* Specification Spec: a space P and a space C with bases [P] in the model,
\* P created with or without a child space x before C; then any operations
\* on P and C.

WorldP == new_space(EmptyWorld, Model, NoName, <<>>, "pf_none", <<>>, <<"x", "y">>).w

WorldPx == new_space(WorldP, 1, "x", <<>>, NoParamFunc, <<>>, <<"x", "y">>).w

WorldPC == new_space(WorldP, Model, NoName, <<1>>, "pf_none", <<>>, <<"x", "y">>).w

WorldPxC == new_space(WorldPx, Model, NoName, <<1>>, "pf_none", <<>>, <<"x", "y">>).w

InitPC == InitFrom(WorldPC) \/ InitFrom(WorldPxC)

\* The spaces the operations are called on: P and C.
Targets == {s \in Ids(World) : impl[s].parent = Model}

\* Recorded with remove_cells: whether the space has the cells as its own
\* when the operation is called.
WasOwn(s, name) == IF name \in DOMAIN impl[s].self_cells THEN <<"own">> ELSE <<>>

NewCells ==
    /\ nops < MaxOps
    /\ \E s \in Targets, name \in Names, params \in {0, 1}, ord \in Orders :
          Step("new_cells", s, name, <<>>, new_cells(World, s, name, 0, params, ord))

NewSpace ==
    /\ nops < MaxOps
    /\ \E s \in Targets, name \in Names, ord \in Orders :
          Step("new_space", s, name, <<>>, new_space(World, s, name, <<>>, NoParamFunc, <<>>, ord))

\* Recorded with set_name: the value, and whether the space has the name
\* as its own reference when the operation is called.
SetName ==
    /\ nops < MaxOps
    /\ \E s \in Targets, name \in Names, value \in RefValues, ord \in Orders :
          Step("set_name", s, name,
               IF name \in DOMAIN impl[s].self_refs THEN <<value, "own">> ELSE <<value>>,
               set_name(World, s, name, value, ord))

RemoveCells ==
    /\ nops < MaxOps
    /\ \E s \in Targets, name \in Names, ord \in Orders :
          Step("remove_cells", s, name, WasOwn(s, name), remove_cells(World, s, name, ord))

RemoveDerived ==
    /\ nops < MaxOps
    /\ \E s \in Targets, name \in Names, ord \in Orders :
          Step("remove_derived", s, name, <<>>, remove_derived(World, s, name, ord))

GetSpace ==
    /\ nops < MaxOps
    /\ \E s \in Targets, a \in ArgValues, ord \in Orders :
          Step("get_space", s, NoName, <<a>>, get_space(World, s, <<a>>, 0, ord))

Read ==
    /\ nops < MaxOps
    /\ \E s \in Targets, what \in {"cells", "spaces", "refs", "namespace"}, ord \in Orders :
          Step(what, s, NoName, <<>>, read(World, s, what, ord))

Next == NewCells \/ NewSpace \/ SetName \/ RemoveCells \/ RemoveDerived \/ GetSpace \/ Read

Spec == InitPC /\ [][Next]_vars

\* ---------------------------------------------------------------------
\* Specification SpecCells: P and C with bases [P]; cells are created in
\* and removed from P and C, and their cells mappings are read.

CellsNewCells ==
    /\ nops < MaxCellsOps
    /\ \E s \in Targets, name \in Names, ord \in Orders :
          Step("new_cells", s, name, <<>>, new_cells(World, s, name, 0, 0, ord))

CellsRemoveCells ==
    /\ nops < MaxCellsOps
    /\ \E s \in Targets, name \in Names, ord \in Orders :
          Step("remove_cells", s, name, WasOwn(s, name), remove_cells(World, s, name, ord))

CellsRead ==
    /\ nops < MaxCellsOps
    /\ \E s \in Targets, ord \in Orders :
          Step("cells", s, NoName, <<>>, read(World, s, "cells", ord))

NextCells == CellsNewCells \/ CellsRemoveCells \/ CellsRead

SpecCells == InitFrom(WorldPC) /\ [][NextCells]_vars

\* ---------------------------------------------------------------------
\* Specification SpecParam: one space Q in the model, created without a
\* parameter formula; a parameter formula is assigned, child spaces are
\* created by name and by arguments, given by position or by keyword.

WorldQ == new_space(EmptyWorld, Model, NoName, <<>>, NoParamFunc, <<>>, <<"x", "y">>).w

SetParamFunc ==
    /\ nops < MaxParamOps
    /\ \E s \in Targets, pf \in ParamFuncs \cup {ParamFuncNested} :
          Step("set_paramfunc", s, NoName, <<pf>>, set_paramfunc(World, s, pf))

\* The argument recorded is the tuple of the values given, by position
\* or by keyword.
ParamGetSpace ==
    /\ nops < MaxParamOps
    /\ \E s \in Targets, args \in {<<>>} \cup {<<a>> : a \in ArgValues},
          kw \in {0} \cup ArgValues, ord \in Orders :
          Step("get_space", s, NoName, args \o (IF kw = 0 THEN <<>> ELSE <<kw>>),
               get_space(World, s, args, kw, ord))

\* A child space is created without a parameter formula, or with one
\* that returns None or that raises; or its creation is tried with a name
\* that is not valid, with the model as its base, which is not a space,
\* or with the same space twice as its bases, which have no
\* linearization.
ParamNewSpace ==
    /\ nops < MaxParamOps
    /\ \E s \in Targets, name \in Names \cup {BadName}, ord \in Orders,
          pf \in {NoParamFunc, "pf_none", "pf_raise"} :
          \E bases \in {<<>>, <<Model>>, <<s, s>>} :
             /\ (name = BadName \/ bases # <<>>) => pf = NoParamFunc
             /\ Step("new_space", s, name, bases,
                     new_space(World, s, name, bases, pf, <<>>, ord))

NextParam == SetParamFunc \/ ParamGetSpace \/ ParamNewSpace

SpecParam == InitFrom(WorldQ) /\ [][NextParam]_vars

\* ---------------------------------------------------------------------
\* Specification SpecEval: a space A with a child space x, whose parameter
\* formula makes its dynamic children derive from x itself, and with a
\* cells foo(i); a space C with bases [A]. The reference y is assigned in
\* the spaces, derived members are removed, and the cells foo of the
\* spaces are called.

WorldA == new_space(WorldQ, 1, "x", <<>>, ParamFuncSelf, <<>>, <<"x", "y">>).w

WorldEval(f) ==
    new_space(new_cells(WorldA, 1, CellsName, f, 1, <<"x", "y">>).w,
              Model, NoName, <<1>>, NoParamFunc, <<>>, <<"x", "y">>).w

InitEval == \E f \in Formulas : InitFrom(WorldEval(f))

\* Recorded with set_name and remove_derived: the calls of foo, as
\* <<space, argument>>, whose values are stored when the operation is
\* called.
StoredCalls ==
    {c \in Ids(World) \X ArgValues :
        /\ CellsName \in DOMAIN cells(impl[c[1]])
        /\ <<c[2]>> \in DOMAIN cells(impl[c[1]])[CellsName].e}

EvalSetName ==
    /\ nops < MaxEvalOps
    /\ \E s \in Ids(World), value \in RefValues, ord \in Orders :
          Step("set_name", s, "y", <<value, StoredCalls>>,
               set_name(World, s, "y", value, ord))

EvalRemoveDerived ==
    /\ nops < MaxEvalOps
    /\ \E s \in Ids(World), name \in Names, ord \in Orders :
          Step("remove_derived", s, name, <<StoredCalls>>,
               remove_derived(World, s, name, ord))

EvalCall ==
    /\ nops < MaxEvalOps
    /\ \E s \in Ids(World), a \in ArgValues, ord \in Orders :
          Step("call", s, CellsName, <<a>>, call(World, s, CellsName, <<a>>, ord))

NextEval == EvalSetName \/ EvalRemoveDerived \/ EvalCall

SpecEval == InitEval /\ [][NextEval]_vars

\* ---------------------------------------------------------------------
\* Specification SpecState: P with the reference y and C with bases [P],
\* whose namespace has been read; references are assigned, cells and
\* dynamic child spaces are created, the namespaces are read, and the
\* model is pickled, with or without going on with the objects unpickled.

WorldState ==
    read(set_name(WorldPC, 1, "y", 1, <<"x", "y">>).w, 2, "namespace", <<"x", "y">>).w

StateSetName ==
    /\ nops < MaxStateOps
    /\ \E s \in Targets, name \in Names, value \in RefValues :
          Step("set_name", s, name, <<value>>, set_name(World, s, name, value, <<"x", "y">>))

StateNewCells ==
    /\ nops < MaxStateOps
    /\ \E s \in Targets :
          Step("new_cells", s, "x", <<>>, new_cells(World, s, "x", 0, 0, <<"x", "y">>))

StateGetSpace ==
    /\ nops < MaxStateOps
    /\ \E s \in Targets, a \in ArgValues :
          Step("get_space", s, NoName, <<a>>, get_space(World, s, <<a>>, 0, <<"x", "y">>))

StateRead ==
    /\ nops < MaxStateOps
    /\ \E s \in Targets, ord \in Orders :
          Step("namespace", s, NoName, <<>>, read(World, s, "namespace", ord))

\* pickle.dumps(model); the program goes on with the objects it has.
StateSave ==
    /\ nops < MaxStateOps
    /\ Step("save", Model, NoName, <<>>, Ok(dumps(World).live, 0))

\* pickle.loads(pickle.dumps(model)) and restore_state; the program goes
\* on with the objects unpickled.
StateRestore ==
    /\ nops < MaxStateOps
    /\ Step("restore", Model, NoName, <<>>, Ok(loads(World, dumps(World).blob), 0))

NextState ==
    StateSetName \/ StateNewCells \/ StateGetSpace \/ StateRead \/ StateSave \/ StateRestore

SpecState == InitFrom(WorldState) /\ [][NextState]_vars

\* ---------------------------------------------------------------------
\* Specification SpecViews: P with a cells y, and C with bases [P];
\* cells, child spaces and references are added to P and C under either
\* name, the child spaces with or without a base and a parameter formula,
\* and the namespaces are read.

WorldViews ==
    new_space(new_cells(WorldP, 1, "y", 0, 0, <<"x", "y">>).w,
              Model, NoName, <<1>>, "pf_none", <<>>, <<"x", "y">>).w

ViewsNewCells ==
    /\ nops < MaxViewOps
    /\ \E s \in Targets, name \in Names :
          Step("new_cells", s, name, <<>>, new_cells(World, s, name, 0, 0, <<"x", "y">>))

\* A child space is created plain, or, under the name x, with the other
\* of P and C as its base and with a parameter formula.
ViewsNewSpace ==
    /\ nops < MaxViewOps
    /\ \E s \in Targets, name \in Names, b \in Targets \cup {Model} :
          /\ b # s
          /\ b # Model => name = "x"
          /\ Step("new_space", s, name, IF b = Model THEN <<>> ELSE <<b>>,
                  new_space(World, s, name, IF b = Model THEN <<>> ELSE <<b>>,
                            IF b = Model THEN NoParamFunc ELSE "pf_name",
                            <<>>, <<"x", "y">>))

ViewsSetName ==
    /\ nops < MaxViewOps
    /\ \E s \in Targets, name \in Names :
          Step("set_name", s, name, <<1>>, set_name(World, s, name, 1, <<"x", "y">>))

ViewsRead ==
    /\ nops < MaxViewOps
    /\ \E s \in Targets :
          Step("namespace", s, NoName, <<>>, read(World, s, "namespace", <<"x", "y">>))

NextViews == ViewsNewCells \/ ViewsNewSpace \/ ViewsSetName \/ ViewsRead

SpecViews == InitFrom(WorldViews) /\ [][NextViews]_vars

\* ---------------------------------------------------------------------
\* Properties of the linearization

Index(seq, x) == CHOOSE i \in 1..Len(seq) : seq[i] = x

Occurs(seq, x) == \E i \in 1..Len(seq) : seq[i] = x

Declared(s) == {impl[s].declared_bases[i] : i \in 1..Len(impl[s].declared_bases)}

\* The direct and transitive bases of s, from the bases each space was
\* created with.
RECURSIVE AllBases(_)
AllBases(s) == Declared(s) \cup UNION {AllBases(b) : b \in Declared(s)}

\* C7: the mro of every constructed space starts with the space itself,
\* and every space of the mro comes before all of its direct and
\* transitive bases.
C7_MroSelfFirstBeforeBases ==
    \A s \in DOMAIN impl :
        /\ Len(impl[s].mro) >= 1
        /\ impl[s].mro[1] = s
        /\ \A i \in 1..Len(impl[s].mro) :
              \A b \in AllBases(impl[s].mro[i]) :
                  /\ Occurs(impl[s].mro, b)
                  /\ i < Index(impl[s].mro, b)

\* A space whose two bases share a base: the merge has to place the shared
\* base after both.
C7_Witness ==
    \E s \in DOMAIN impl :
        /\ Len(impl[s].declared_bases) = 2
        /\ impl[s].declared_bases[1] # impl[s].declared_bases[2]
        /\ AllBases(impl[s].declared_bases[1]) \cap AllBases(impl[s].declared_bases[2]) # {}

\* C8: for every space X of an mro, the bases X was declared with occur in
\* that mro in the order of X's list of bases.
C8_MroLocalOrder ==
    \A s \in DOMAIN impl :
        \A k \in 1..Len(impl[s].mro) :
            LET declared == impl[impl[s].mro[k]].declared_bases
            IN \A i \in 1..Len(declared), j \in 1..Len(declared) :
                  i < j => /\ Occurs(impl[s].mro, declared[i])
                           /\ Occurs(impl[s].mro, declared[j])
                           /\ Index(impl[s].mro, declared[i]) < Index(impl[s].mro, declared[j])

\* A space with two bases, one of which has two bases itself.
C8_Witness ==
    \E s \in DOMAIN impl :
        /\ Len(impl[s].declared_bases) = 2
        /\ \E i \in 1..2 : Len(impl[impl[s].declared_bases[i]].declared_bases) = 2

\* The precedence the bases of a new space ask for: a precedes b when
\* some space reachable from bases lists a before b, when bases itself
\* does, or when b is a base of a.
Reachable(bases) ==
    {bases[i] : i \in 1..Len(bases)} \cup UNION {AllBases(bases[i]) : i \in 1..Len(bases)}

Precedes(bases, a, b) ==
    \/ \E i \in 1..Len(bases), j \in 1..Len(bases) : i < j /\ bases[i] = a /\ bases[j] = b
    \/ \E X \in Reachable(bases) :
          \/ X = a /\ b \in Declared(X)
          \/ \E i \in 1..Len(impl[X].declared_bases), j \in 1..Len(impl[X].declared_bases) :
                i < j /\ impl[X].declared_bases[i] = a /\ impl[X].declared_bases[j] = b

RECURSIVE PrecedesWithin(_, _, _, _)
PrecedesWithin(bases, a, b, n) ==
    \/ Precedes(bases, a, b)
    \/ /\ n > 1
       /\ \E c \in Reachable(bases) : Precedes(bases, a, c) /\ PrecedesWithin(bases, c, b, n - 1)

ConflictingPrecedence(bases) ==
    \E a \in Reachable(bases) : PrecedesWithin(bases, a, a, Cardinality(Reachable(bases)))

NewSpaceWithSpaces ==
    /\ result.op = "new_space"
    /\ \A i \in 1..Len(result.arg) : result.arg[i] \in DOMAIN impl

\* C9: a new space whose bases ask for a conflicting precedence is not
\* created; the construction raises the inconsistent-hierarchy error.
C9_ConflictRaises ==
    (NewSpaceWithSpaces /\ ConflictingPrecedence(result.arg))
        => /\ ~ result.ok
           /\ result.err = "TypeError: inconsistent hierarchy, no C3 MRO is possible"

\* The bases are two spaces that were declared with the same two bases in
\* opposite orders.
C9_Witness ==
    /\ NewSpaceWithSpaces
    /\ ~ result.ok
    /\ Len(result.arg) = 2
    /\ \E a \in DOMAIN impl, b \in DOMAIN impl :
          /\ a # b
          /\ impl[result.arg[1]].declared_bases = <<a, b>>
          /\ impl[result.arg[2]].declared_bases = <<b, a>>

\* ---------------------------------------------------------------------
\* Properties of get_space

\* The children that param_spaces of s holds are pairwise distinct.
ParamSpacesInjective(s) ==
    \A k1, k2 \in DOMAIN impl[s].param_spaces :
        impl[s].param_spaces[k1] = impl[s].param_spaces[k2] => k1 = k2

\* C1: a get_space whose argument values equal those of an earlier call
\* returns the child of that call and neither evaluates the parameter
\* formula nor constructs anything; a get_space with argument values not
\* seen before returns a space that did not exist, so that calls with
\* different argument values return different children; the children of
\* the other argument values stay as they are.
C1_GetSpaceMemoized ==
    [][ (result'.op = "get_space" /\ result'.ok) =>
          LET s == result'.space
              key == result'.arg
              before == impl[s].param_spaces
              after == impl'[s].param_spaces
          IN /\ key \in DOMAIN before =>
                    /\ result'.ret = before[key]
                    /\ impl' = impl
                    /\ model_namer' = model_namer
             /\ key \notin DOMAIN before =>
                    /\ result'.ret \notin DOMAIN impl
                    /\ \A k \in DOMAIN before : before[k] # result'.ret
             /\ key \in DOMAIN after
             /\ after[key] = result'.ret
             /\ \A k \in DOMAIN before : k \in DOMAIN after /\ after[k] = before[k]
             /\ \A t \in DOMAIN impl' : ParamSpacesInjective(t)' ]_vars

\* Two argument values have their children, and the last get_space
\* returned the older of the two.
C1_Witness ==
    /\ result.op = "get_space"
    /\ result.ok
    /\ Cardinality(DOMAIN impl[result.space].param_spaces) = 2
    /\ result.ret + 1 \in DOMAIN impl
    /\ impl[result.ret + 1].parent = result.space
    /\ impl[result.ret + 1].arguments # <<>>

\* ---------------------------------------------------------------------
\* Properties of own and derived members

MemberKinds == {"cells", "spaces", "refs"}

\* C2: when the mapping of a kind of a space has just been read, so that
\* its derived members are up to date, no name is a key of both the own
\* and the derived members of that kind.
C2_OwnDerivedDisjoint ==
    \A s \in DOMAIN impl, k \in MemberKinds :
        (result.op = k /\ result.space = s /\ result.ok)
            => (DOMAIN SelfOf(impl[s], k)) \cap (DOMAIN DerivedOf(impl[s], k)) = {}

\* The steps that add cells name to space s or remove it from s.
ChangesOwnCells(s, name) ==
    /\ result'.op \in {"new_cells", "remove_cells"}
    /\ result'.space = s
    /\ result'.name = name

DeclaringBase(s, x) ==
    LET mro == impl[s].mro
        at == {i \in 2..Len(mro) : x \in DOMAIN impl[mro[i]].self_cells}
    IN IF at = {} THEN 0 ELSE mro[CHOOSE i \in at : \A j \in at : i <= j]

\* C4: when remove_cells(x) has removed the own cells x of a space of
\* which a base declares cells x, the space no longer owns x, and the read
\* of its cells that follows has x as a derived cells with the formula of
\* that base's x.
C4_RemoveCellsResynthesizes ==
    [][ \A s \in DOMAIN impl :
          (/\ result.op = "remove_cells" /\ result.ok /\ result.arg = <<"own">>
           /\ result.space = s
           /\ DeclaringBase(s, result.name) # 0
           /\ result'.op = "cells" /\ result'.space = s) =>
              LET x == result.name
              IN /\ x \notin DOMAIN impl[s].self_cells
                 /\ x \notin DOMAIN impl'[s].self_cells
                 /\ x \in DOMAIN impl'[s].derived_cells
                 /\ x \in DOMAIN cells(impl'[s])
                 /\ cells(impl'[s])[x].a = impl[DeclaringBase(s, x)].self_cells[x].a ]_vars

\* The kind of member that an operation adds to a space.
KindAdded(op) ==
    CASE op = "new_cells" -> "cells"
      [] op = "new_space" -> "spaces"
      [] op = "set_name" -> "refs"
      [] OTHER -> "none"

\* Space p is in the mro of space s after s, and neither s nor a space
\* between s and p in that mro owns a member named n.
InheritsFrom(s, p, n) ==
    \E i \in 2..Len(impl[s].mro) :
        /\ impl[s].mro[i] = p
        /\ \A j \in 1..(i - 1) : n \notin DOMAIN self_members(impl[impl[s].mro[j]])

\* C5: when a space P has been given an own cells, child space or
\* reference n, and C has P in its mro with no space before P owning n,
\* the read of C's mapping of that kind that follows has n as a derived
\* member; and the operation on P itself leaves the derived members of
\* the other spaces as they were.
C5_BaseGainDerivedOnRead ==
    [][ /\ \A s \in DOMAIN impl :
             LET p == result.space
                 n == result.name
                 k == KindAdded(result.op)
             IN (/\ k # "none" /\ result.ok /\ p \in DOMAIN impl
                 /\ n \in DOMAIN SelfOf(impl[p], k)
                 /\ InheritsFrom(s, p, n)
                 /\ result'.op = k /\ result'.space = s)
                    => n \in DOMAIN DerivedOf(impl'[s], k)
        /\ \A s \in DOMAIN impl, k \in MemberKinds :
             (KindAdded(result'.op) # "none" /\ result'.space # s)
                 => DerivedOf(impl'[s], k) = DerivedOf(impl[s], k) ]_vars

\* C6: a read of the namespace of a space returns the merge of the cells,
\* spaces and refs mappings the space has at that time.
C6_NamespaceCurrent ==
    \A s \in DOMAIN impl :
        (result.op = "namespace" /\ result.space = s /\ result.ok)
            => impl[s].namespace =
                 DictUpdate(DictUpdate(cells(impl[s]), spaces(impl[s])), refs(impl[s]))

\* C10: no name is a key of more than one of the cells, spaces and refs
\* mappings of a space.
C10_NamesUniqueAcrossKinds ==
    \A s \in DOMAIN impl :
        /\ (DOMAIN cells(impl[s])) \cap (DOMAIN spaces(impl[s])) = {}
        /\ (DOMAIN cells(impl[s])) \cap (DOMAIN refs(impl[s])) = {}
        /\ (DOMAIN spaces(impl[s])) \cap (DOMAIN refs(impl[s])) = {}

\* ---------------------------------------------------------------------
\* Properties of set_name

\* C11: set_name(name, v) on a name that the refs mapping of the space
\* has succeeds and makes the refs mapping yield v for the name; a read
\* of the namespace that follows it yields v for the name; and no step
\* other than a set_name of that name on that space changes what the
\* refs mapping yields for it.
C11_SetNameExistingRef ==
    [][ \A s \in DOMAIN impl, n \in Names :
          /\ (/\ result'.op = "set_name" /\ result'.space = s /\ result'.name = n
              /\ n \in DOMAIN refs(impl[s]))
                => /\ result'.ok
                   /\ n \in DOMAIN refs(impl'[s])
                   /\ refs(impl'[s])[n] = RefObj(result'.arg[1])
          /\ (/\ result.op = "set_name" /\ result.space = s /\ result.name = n
              /\ result.ok /\ n \in DOMAIN refs(impl[s])
              /\ result'.op = "namespace" /\ result'.space = s)
                => /\ result'.ok
                   /\ n \in DOMAIN impl'[s].namespace
                   /\ impl'[s].namespace[n] = RefObj(result.arg[1])
          /\ (/\ n \in DOMAIN refs(impl[s])
              /\ ~ (result'.op = "set_name" /\ result'.space = s /\ result'.name = n))
                => /\ n \in DOMAIN refs(impl'[s])
                   /\ refs(impl'[s])[n] = refs(impl[s])[n] ]_vars

\* Name n resolves to a child space of s: of the mappings of s, only the
\* spaces mapping has it.
ResolvesToSpace(s, n) ==
    /\ n \in DOMAIN spaces(impl[s])
    /\ n \notin DOMAIN cells(impl[s])
    /\ n \notin DOMAIN refs(impl[s])

\* Name n resolves to a cells of s that has parameters.
ResolvesToParamCells(s, n) ==
    /\ n \in DOMAIN cells(impl[s])
    /\ cells(impl[s])[n].d # 0
    /\ n \notin DOMAIN spaces(impl[s])
    /\ n \notin DOMAIN refs(impl[s])

\* C12: set_name on a name that resolves to a child space of the space,
\* or to a cells with parameters, raises; it leaves the own cells and the
\* references of the space as they were, and leaves the name out of the
\* refs mapping.
C12_SetNameRejected ==
    [][ \A s \in DOMAIN impl, n \in Names :
          (/\ result'.op = "set_name" /\ result'.space = s /\ result'.name = n
           /\ (ResolvesToSpace(s, n) \/ ResolvesToParamCells(s, n)))
             => /\ ~ result'.ok
                /\ impl'[s].self_cells = impl[s].self_cells
                /\ impl'[s].self_refs = impl[s].self_refs
                /\ impl'[s].global_refs = impl[s].global_refs
                /\ n \notin DOMAIN refs(impl'[s]) ]_vars

\* ---------------------------------------------------------------------
\* Properties of the evaluation of cells

\* The cells foo of space s returns the reference y of its child space x,
\* which is space t, read as x.y or as x[1].y.
ReturnsRefOf(s, t) ==
    /\ CellsName \in DOMAIN cells(impl[s])
    /\ cells(impl[s])[CellsName].a \in {FormulaChild, FormulaParam}
    /\ "x" \in DOMAIN spaces(impl[s])
    /\ spaces(impl[s])["x"].a = t

\* C13: when the reference y of a space t has been assigned the value v,
\* and the cells foo of a space s returns that reference, directly or
\* through the dynamic child of t, a call of foo that follows the
\* assignment with arguments for which a value was stored before the
\* assignment returns v.
C13_ReferenceChangeRecomputes ==
    [][ \A s \in DOMAIN impl, a \in ArgValues :
          (/\ result.op = "set_name" /\ result.ok /\ result.name = "y"
           /\ <<s, a>> \in result.arg[2]
           /\ ReturnsRefOf(s, result.space)
           /\ result'.op = "call" /\ result'.space = s /\ result'.arg = <<a>>)
             => /\ result'.ok
                /\ result'.ret = result.arg[1] ]_vars

\* C14: when the cells foo of a space s returns the reference y of s, a
\* value is stored for a call of foo, and y is then removed from s, so
\* that the refs mapping of s no longer has it, the call of foo with the
\* same arguments that follows raises.
C14_DeletedReferenceRaises ==
    [][ \A s \in DOMAIN impl, a \in ArgValues :
          (/\ result.op = "remove_derived" /\ result.ok /\ result.ret = 1
           /\ result.name = "y" /\ result.space = s
           /\ <<s, a>> \in result.arg[1]
           /\ CellsName \in DOMAIN cells(impl[s])
           /\ cells(impl[s])[CellsName].a = FormulaOwn
           /\ "y" \notin DOMAIN refs(impl[s])
           /\ result'.op = "call" /\ result'.space = s /\ result'.arg = <<a>>)
             => ~ result'.ok ]_vars

\* The child space x of space s, 0 if s has none.
ChildX(s) == IF "x" \in DOMAIN spaces(impl[s]) THEN spaces(impl[s])["x"].a ELSE 0

\* C15: when A has the child space x with the reference y and the cells
\* foo that returns x.y, and foo has just been called on A and returned
\* the value of y, then a call of foo on a space C with bases [A] that
\* follows returns that value too, and it is read from the child x that C
\* has of its own.
C15_DerivedFormulaOwnChild ==
    [][ \A c \in DOMAIN impl :
          LET A == result.space
          IN (/\ result.op = "call" /\ result.ok
              /\ impl[c].declared_bases = <<A>>
              /\ CellsName \in DOMAIN impl[A].self_cells
              /\ impl[A].self_cells[CellsName].a = FormulaChild
              /\ result'.op = "call" /\ result'.space = c /\ result'.arg = result.arg)
                => /\ result'.ok
                   /\ result'.ret = result.ret
                   /\ ChildX(c)' \notin {0, ChildX(A)'} ]_vars

\* ---------------------------------------------------------------------
\* Properties of remove_derived

\* The names of the derived members of space s, of every kind.
DerivedNames(s) ==
    (DOMAIN impl[s].derived_cells) \cup (DOMAIN impl[s].derived_spaces)
        \cup (DOMAIN impl[s].derived_refs)

\* C16: when remove_derived(n) has returned True on a space s, n is not a
\* derived member of s; a read of a mapping of s that follows leaves it
\* so; and a read of the namespace of s that follows does not have n,
\* unless s has n as a member of its own or as a global reference.
C16_RemoveDerivedAbsent ==
    [][ \A s \in DOMAIN impl, n \in Names :
          (/\ result.op = "remove_derived" /\ result.ok /\ result.ret = 1
           /\ result.space = s /\ result.name = n)
             => /\ n \notin DerivedNames(s)
                /\ (/\ result'.space = s
                    /\ result'.op \in {"cells", "spaces", "refs", "namespace"})
                      => n \notin DerivedNames(s)'
                /\ (/\ result'.space = s /\ result'.op = "namespace" /\ result'.ok
                    /\ n \notin DOMAIN self_members(impl[s])
                    /\ n \notin DOMAIN impl[s].global_refs)
                      => n \notin DOMAIN impl'[s].namespace ]_vars

\* ---------------------------------------------------------------------
\* Properties of set_paramfunc

\* C17: set_paramfunc on a space that has a parameter formula raises and
\* changes nothing, so that the parameter formula and param_spaces stay
\* as they are; on a space that has none it returns normally and the
\* space then has the formula given, its param_spaces being unchanged.
C17_SetParamFuncOnce ==
    [][ \A s \in DOMAIN impl :
          (result'.op = "set_paramfunc" /\ result'.space = s) =>
             IF impl[s].paramfunc # NoParamFunc
             THEN /\ ~ result'.ok
                  /\ impl'[s].paramfunc = impl[s].paramfunc
                  /\ impl'[s].param_spaces = impl[s].param_spaces
                  /\ impl' = impl
             ELSE /\ result'.ok
                  /\ impl'[s].paramfunc = result'.arg[1]
                  /\ impl'[s].param_spaces = impl[s].param_spaces ]_vars

\* A set_paramfunc with another formula has just raised on a space that
\* has a parameter formula and a dynamic child made with it.
C17_Witness ==
    /\ result.op = "set_paramfunc"
    /\ ~ result.ok
    /\ impl[result.space].paramfunc # result.arg[1]
    /\ impl[result.space].paramfunc \in ParamFuncs
    /\ DOMAIN impl[result.space].param_spaces # {}

\* ---------------------------------------------------------------------
\* Properties of the serialization

MergedLaterWins(sp) == DictUpdate(DictUpdate(cells(sp), spaces(sp)), refs(sp))

\* A read of the namespace of s that recomputes it has just returned.
NamespaceRecomputed(s) ==
    /\ result'.op = "namespace" /\ result'.space = s /\ result'.ok
    /\ IsDirty(World, s, "namespace")

DerivedCellsSynthesized(s) ==
    /\ result'.op = "cells" /\ result'.space = s /\ result'.ok
    /\ IsDirty(World, s, "cells")
    /\ IsDirty(World, s, "derived_cells")

\* C20: after the synthesis of the derived cells of a space has run, the
\* names of its derived cells are the inheritable names, those of its
\* base cells, and each derived cells is bound to the space and has the
\* formula of the base cells of its name.
C20_DerivedCellsAreInheritable ==
    [][ \A s \in DOMAIN impl :
          DerivedCellsSynthesized(s)
              => /\ DOMAIN impl'[s].derived_cells = DOMAIN impl'[s].base_cells
                 /\ \A n \in DOMAIN impl'[s].base_cells :
                      /\ impl'[s].derived_cells[n].a = impl'[s].base_cells[n].a
                      /\ impl'[s].derived_cells[n].b = s ]_vars

\* ---------------------------------------------------------------------
\* Properties of references changed in a base

\* C21: when set_name(n, v) has succeeded on a space P that had n as its
\* own reference, and C has bases [P] and has no member of its own named
\* n, the read of the refs or of the namespace of C that follows yields v
\* for n.
C21_BaseRefChangeSeen ==
    [][ \A c \in DOMAIN impl :
          LET p == result.space
              n == result.name
          IN (/\ result.op = "set_name" /\ result.ok
              /\ Len(result.arg) = 2
              /\ impl[c].declared_bases = <<p>>
              /\ n \notin DOMAIN self_members(impl[c])
              /\ n \notin DOMAIN impl[c].global_refs
              /\ result'.op \in {"refs", "namespace"}
              /\ result'.space = c /\ result'.ok)
                 => LET m == IF result'.op = "refs" THEN refs(impl'[c])
                                                    ELSE impl'[c].namespace
                    IN /\ n \in DOMAIN m
                       /\ m[n] = RefObj(result.arg[1]) ]_vars

\* ---------------------------------------------------------------------
\* Properties of the derived child spaces

\* C22: every derived child space of a space s, synthesized for the
\* child space b of a base that s inherits under that name, has s as its
\* parent and has the direct bases that b was created with and the
\* parameter formula of b.
C22_DerivedChildLikeInherited ==
    \A s \in DOMAIN impl : \A n \in DOMAIN impl[s].derived_spaces :
        n \in DOMAIN impl[s].base_spaces
            => LET d == impl[impl[s].derived_spaces[n].a]
                   b == impl[impl[s].base_spaces[n].a]
               IN /\ d.parent = s
                  /\ d.declared_bases = b.declared_bases
                  /\ d.paramfunc = b.paramfunc

\* ---------------------------------------------------------------------
\* Properties of the steps of the linearization merge

\* The sequences merged for space s: the mro of each base s was created
\* with, in the order declared, then the list of those bases.
MergedSeqs(s) ==
    [i \in 1..Len(impl[s].declared_bases) |-> impl[impl[s].declared_bases[i]].mro]
        \o <<impl[s].declared_bases>>

\* What is left of sequence seq when the first i - 1 spaces of the mro of
\* s after s itself have been taken.
LeftAt(s, seq, i) ==
    SelectSeq(seq, LAMBDA x : \A j \in 2..i : impl[s].mro[j] # x)

\* At step i of the merge for s, the q-th sequence is not empty and its
\* head occurs in the tail of no sequence.
GoodHeadAt(s, q, i) ==
    /\ LeftAt(s, MergedSeqs(s)[q], i) # <<>>
    /\ \A q2 \in 1..Len(MergedSeqs(s)) :
          ~ InTail(LeftAt(s, MergedSeqs(s)[q], i)[1], LeftAt(s, MergedSeqs(s)[q2], i))

\* C23: the i-th space taken by the merge for s is the head of the first
\* sequence whose head occurs in no tail of what is left of the
\* sequences, nothing is left of any sequence at the end, and two spaces
\* created with the same list of bases have the same mro after themselves.
C23_MergeTakesFirstGoodHead ==
    \A s \in DOMAIN impl :
        /\ \A i \in 1..(Len(impl[s].mro) - 1) :
              \E q \in 1..Len(MergedSeqs(s)) :
                  /\ GoodHeadAt(s, q, i)
                  /\ \A q1 \in 1..(q - 1) : ~ GoodHeadAt(s, q1, i)
                  /\ impl[s].mro[i + 1] = LeftAt(s, MergedSeqs(s)[q], i)[1]
        /\ \A q \in 1..Len(MergedSeqs(s)) :
              LeftAt(s, MergedSeqs(s)[q], Len(impl[s].mro)) = <<>>
        /\ \A t \in DOMAIN impl :
              impl[t].declared_bases = impl[s].declared_bases
                  => Tail(impl[t].mro) = Tail(impl[s].mro)

\* A space for which, at some step of the merge, two sequences have
\* different heads that both occur in no tail: the merge has taken the
\* head of the first of them.
C23_Witness ==
    \E s \in DOMAIN impl :
        \E i \in 1..(Len(impl[s].mro) - 1), q1, q2 \in 1..Len(MergedSeqs(s)) :
            /\ GoodHeadAt(s, q1, i) /\ GoodHeadAt(s, q2, i)
            /\ LeftAt(s, MergedSeqs(s)[q1], i)[1] # LeftAt(s, MergedSeqs(s)[q2], i)[1]

\* ---------------------------------------------------------------------
\* Properties of the aggregation of the members of the bases

\* The walk over the spaces of mro from the last down to the second, in
\* the spaces im: the own members of kind k of the space visited are
\* added to the working map data, and then the names are removed that the
\* own members of the next space, of any kind, do not contain (keep) or
\* do contain (not keep).
RECURSIVE WalkBases(_, _, _, _, _, _)
WalkBases(im, mro, k, i, data, keep) ==
    IF i < 2 THEN data
    ELSE LET added == DictUpdate(data, SelfOf(im[mro[i]], k))
             next == DOMAIN self_members(im[mro[i - 1]])
         IN WalkBases(im, mro, k, i - 1,
                      Restrict(added, IF keep THEN (DOMAIN added) \cap next
                                              ELSE (DOMAIN added) \ next),
                      keep)

\* The step has recomputed the members of kind k of the bases of s, and
\* has left the own members of the spaces of the mro of s as they were
\* when it did.
BaseMembersRecomputed(s, k) ==
    /\ BaseName(k) \notin impl'[s].dirty
    /\ s \in DOMAIN impl => BaseName(k) \in impl[s].dirty
    /\ \A i \in 1..Len(impl'[s].mro) :
          LET t == impl'[s].mro[i]
          IN IF t \in DOMAIN impl
             THEN /\ self_members(impl'[t]) = self_members(impl[t])
                  /\ SelfOf(impl'[t], k) = SelfOf(impl[t], k)
             ELSE self_members(impl'[t]) = EmptyMap

\* C24, as claimed: the members of the bases are what the walk leaves when,
\* after adding the own members of a space, it removes every name that
\* the own members of the next space do not contain.
C24_RemovesNamesNextLacks ==
    [][ \A s \in DOMAIN impl', k \in Kinds :
          BaseMembersRecomputed(s, k)
              => BaseOf(impl'[s], k)
                    = WalkBases(impl', impl'[s].mro, k, Len(impl'[s].mro), EmptyMap, TRUE) ]_vars

\* C24, amended: the members of the bases are what the walk leaves when,
\* after adding the own members of a space, it removes every name that
\* the own members of the next space, of any kind, do contain.
C24_RemovesNamesNextOwns ==
    [][ \A s \in DOMAIN impl', k \in Kinds :
          BaseMembersRecomputed(s, k)
              => BaseOf(impl'[s], k)
                    = WalkBases(impl', impl'[s].mro, k, Len(impl'[s].mro), EmptyMap, FALSE) ]_vars

\* A space with two spaces after it in its mro has, among the members of
\* its bases, a cells that the last space of its mro owns, and lacks a
\* name that the last space owns as a cells and the next as a member of
\* another kind.
C24_Witness ==
    \E s \in DOMAIN impl :
        /\ Len(impl[s].mro) = 3
        /\ "base_cells" \notin impl[s].dirty
        /\ \E n \in Names :
              /\ n \in DOMAIN impl[s].base_cells
              /\ n \in DOMAIN impl[impl[s].mro[3]].self_cells
              /\ impl[s].base_cells[n] = impl[impl[s].mro[3]].self_cells[n]
        /\ \E n \in Names :
              /\ n \notin DOMAIN impl[s].base_cells
              /\ n \in DOMAIN impl[impl[s].mro[3]].self_cells
              /\ n \notin DOMAIN impl[impl[s].mro[2]].self_cells
              /\ n \in DOMAIN self_members(impl[impl[s].mro[2]])

\* ---------------------------------------------------------------------
\* Properties of system.self

\* C25: no operation leaves system.self other than it found it, whether
\* the parameter formulas it evaluated returned or raised; and while
\* get_space on a space s evaluates the parameter formula of s,
\* system.self is s: when the formula is entered, and again when a
\* get_space that the formula called on the child x of s has returned,
\* system.self having been x while the formula of x ran.
C25_SelfSetAndRestored ==
    [][ /\ system_self' = system_self
        /\ result'.op = "get_space"
              => /\ Len(self_seen') <= 3
                 /\ Len(self_seen') >= 1 => self_seen'[1] = result'.space
                 /\ Len(self_seen') >= 2 =>
                       /\ "x" \in DOMAIN impl'[result'.space].namespace
                       /\ self_seen'[2] = impl'[result'.space].namespace["x"].a
                       /\ self_seen'[2] # result'.space
                 /\ Len(self_seen') = 3 => self_seen'[3] = result'.space
        /\ (result'.op = "get_space" /\ ~ result'.ok
              /\ result'.err = "Error raised by the parameter formula")
              => self_seen' # <<>> ]_vars

\* get_space has returned a new space after its parameter formula called
\* get_space on the child x, whose parameter formula ran and returned.
C25_Witness ==
    /\ result.op = "get_space"
    /\ result.ok
    /\ Len(self_seen) = 3
    /\ system_self = Model

\* ---------------------------------------------------------------------
\* Properties of remove_derived on a name that is not derived

\* C26: when remove_derived(n) on s has not removed a member, it has left
\* the spaces as a read of the namespace of s leaves them; it has returned
\* False when s has no cells, child space or reference named n, and it has
\* raised when s has one.
C26_RemoveDerivedNotDerived ==
    [][ (result'.op = "remove_derived" /\ ~ (result'.ok /\ result'.ret = 1))
          => LET s == result'.space
                 n == result'.name
             IN /\ \E ord \in Orders : impl' = read(World, s, "namespace", ord).w.impl
                /\ IF n \in DOMAIN MergedLaterWins(impl'[s])
                   THEN ~ result'.ok
                   ELSE result'.ok /\ result'.ret = 0 ]_vars

\* ---------------------------------------------------------------------
\* Properties of the inputs of the linearization

\* C27: the direct_bases of every constructed space is the list of bases
\* the space was created with, in that order, and the construction of a
\* space leaves the mro of every space that existed as it was.
C27_LinearizationKeepsInputs ==
    [][ \A s \in DOMAIN impl' :
          /\ impl'[s].direct_bases = impl'[s].declared_bases
          /\ s \in DOMAIN impl => impl'[s].mro = impl[s].mro ]_vars

\* ---------------------------------------------------------------------
\* Properties of the inheritable members

\* The position in the mro of s of the first space that owns a member
\* named n, of any kind; 0 when no space of the mro owns one.
FirstOwner(s, n) ==
    LET owners == {i \in 1..Len(impl[s].mro) :
                      n \in DOMAIN self_members(impl[impl[s].mro[i]])}
    IN IF owners = {} THEN 0
       ELSE CHOOSE i \in owners : \A j \in owners : i <= j

\* The names owned by a space of the mro of s.
OwnedInMro(s) ==
    UNION {DOMAIN self_members(impl[impl[s].mro[i]]) : i \in 1..Len(impl[s].mro)}

\* C28: the members of kind k of the bases of s, as the aggregation
\* computes them, are the names n whose first owner in the mro of s is
\* not s itself and owns n as a member of kind k, with that member.
C28_InheritableIffFirstOwner ==
    \A s \in DOMAIN impl, k \in Kinds :
        LET inheritable == {n \in OwnedInMro(s) :
                               /\ FirstOwner(s, n) >= 2
                               /\ n \in DOMAIN SelfOf(impl[impl[s].mro[FirstOwner(s, n)]], k)}
        IN BaseMembers_update_data(World, s, k)
              = [n \in inheritable |-> SelfOf(impl[impl[s].mro[FirstOwner(s, n)]], k)[n]]

\* A space s with two spaces after it in its mro, whose stored cells and
\* references of the bases are those the aggregation computes: a cells
\* that both of those spaces own is inherited from the nearer one, and a
\* reference that only the farther one owns is inherited from it.
C28_Witness ==
    \E s \in DOMAIN impl :
        /\ Len(impl[s].mro) = 3
        /\ \A k \in {"cells", "refs"} :
              /\ BaseName(k) \notin impl[s].dirty
              /\ BaseOf(impl[s], k) = BaseMembers_update_data(World, s, k)
        /\ \E n \in Names :
              /\ n \in DOMAIN impl[impl[s].mro[3]].self_cells
              /\ n \in DOMAIN impl[impl[s].mro[2]].self_cells
              /\ n \in DOMAIN impl[s].base_cells
              /\ impl[s].base_cells[n] = impl[impl[s].mro[2]].self_cells[n]
              /\ impl[s].base_cells[n] # impl[impl[s].mro[3]].self_cells[n]
        /\ \E n \in Names :
              /\ n \in DOMAIN impl[impl[s].mro[3]].self_refs
              /\ n \notin DOMAIN self_members(impl[impl[s].mro[2]])
              /\ n \in DOMAIN impl[s].base_refs

\* ---------------------------------------------------------------------
\* Properties of a child space whose construction fails

\* The record of a space without its automatic namer.
SansNamer(rec) == [rec EXCEPT !.spacenamer = 0]

\* C29: when new_space on a space p has raised, for a name already
\* assigned, a name that is not valid, bases that are not spaces or bases
\* without a linearization, the param_spaces of p are as before, and the
\* spaces there are, the spaces mappings of p and every other field of
\* every space are as a read of the spaces of p before the call leaves
\* them: nothing of the child that was being made is left.
C29_FailedChildLeavesParent ==
    [][ (result'.op = "new_space" /\ ~ result'.ok /\ result'.space # Model)
          => /\ model_spaces' = model_spaces
             /\ impl'[result'.space].param_spaces = impl[result'.space].param_spaces
             /\ \E ord \in Orders :
                  Bind(read(World, result'.space, "spaces", ord).w.impl, LAMBDA before :
                     /\ DOMAIN impl' = DOMAIN before
                     /\ spaces(impl'[result'.space]) = spaces(before[result'.space])
                     /\ \A t \in DOMAIN before :
                           SansNamer(impl'[t]) = SansNamer(before[t])) ]_vars

\* new_space has raised for bases without a linearization, on a space
\* that has a child space and a child space in its param_spaces.
C29_Witness ==
    /\ result.op = "new_space"
    /\ ~ result.ok
    /\ result.err = "TypeError: inconsistent hierarchy, no C3 MRO is possible"
    /\ result.space # Model
    /\ impl[result.space].self_spaces # EmptyMap
    /\ DOMAIN impl[result.space].param_spaces # {}

\* ---------------------------------------------------------------------
\* Properties of a get_space that fails

\* The last operation was a get_space that raised after the code of the
\* parameter formula had run: the formula raised, or the child could not
\* be constructed.
FailedInGetSpace == result.op = "get_space" /\ ~ result.ok /\ self_seen # <<>>

\* C30: a get_space that raises leaves the param_spaces of the space as
\* they were, with no entry for its arguments, and a get_space with the
\* same arguments on the same space right after one that raised in the
\* parameter formula or in the construction of the child runs the
\* parameter formula of the space again.
C30_FailedGetSpaceNotCached ==
    [][ /\ (result'.op = "get_space" /\ ~ result'.ok)
            => /\ impl'[result'.space].param_spaces = impl[result'.space].param_spaces
               /\ result'.arg \notin DOMAIN impl'[result'.space].param_spaces
        /\ (FailedInGetSpace /\ result'.op = "get_space"
               /\ result'.space = result.space /\ result'.arg = result.arg)
            => /\ self_seen' # <<>>
               /\ self_seen'[1] = result'.space ]_vars

\* A get_space raised because the child could not be constructed, after
\* its parameter formula had returned, on a space that has an entry in
\* its param_spaces for other arguments.
C30_Witness ==
    /\ FailedInGetSpace
    /\ result.err = "ValueError: Name already assigned."
    /\ DOMAIN impl[result.space].param_spaces # {}
    /\ result.arg \notin DOMAIN impl[result.space].param_spaces

\* ---------------------------------------------------------------------
\* Properties of param_spaces and the spaces mapping

\* C31: every child that the param_spaces of a space hold is a space
\* that the spaces mapping of the space has under the name of the child,
\* and two entries of param_spaces for different arguments hold children
\* of different names.
C31_CachedChildrenInSpaces ==
    \A s \in DOMAIN impl :
        /\ \A k \in DOMAIN impl[s].param_spaces :
              /\ impl[s].param_spaces[k] \in DOMAIN impl
              /\ impl[impl[s].param_spaces[k]].name \in DOMAIN spaces(impl[s])
              /\ spaces(impl[s])[impl[impl[s].param_spaces[k]].name]
                    = SpaceObj(impl[s].param_spaces[k])
        /\ \A k1, k2 \in DOMAIN impl[s].param_spaces :
              k1 # k2 => impl[impl[s].param_spaces[k1]].name
                            # impl[impl[s].param_spaces[k2]].name

\* The param_spaces of a space hold two children, and the space has a
\* child space of its own besides them.
C31_Witness ==
    \E s \in DOMAIN impl :
        /\ Cardinality(DOMAIN impl[s].param_spaces) = 2
        /\ impl[s].self_spaces # EmptyMap
        /\ \A k \in DOMAIN impl[s].param_spaces :
              impl[impl[s].param_spaces[k]].name \in DOMAIN impl[s].dynamic_spaces

\* ---------------------------------------------------------------------
\* Properties of the mro as a set

\* C32: the mro of every constructed space holds no space twice, and the
\* spaces it holds are the space itself and the spaces reached from it
\* through the lists of bases the spaces were created with.
C32_MroIsSelfAndAllBasesOnce ==
    \A s \in DOMAIN impl :
        /\ \A i, j \in 1..Len(impl[s].mro) : impl[s].mro[i] = impl[s].mro[j] => i = j
        /\ {impl[s].mro[i] : i \in 1..Len(impl[s].mro)} = {s} \cup AllBases(s)

\* A space with two different bases that reach a common base through
\* different spaces: the common base is in three of the merged sequences.
C32_Witness ==
    \E s \in DOMAIN impl :
        /\ Len(impl[s].declared_bases) = 2
        /\ impl[s].declared_bases[1] # impl[s].declared_bases[2]
        /\ \E b \in AllBases(impl[s].declared_bases[1]) \cap AllBases(impl[s].declared_bases[2]) :
              b \in Declared(impl[s].declared_bases[1])
        /\ Len(impl[s].mro) = 4

\* ---------------------------------------------------------------------
\* Properties of taking the state of a space

\* C33: when the model has been pickled, every space that the program
\* goes on with has the refs mapping it had, the global references
\* __builtins__ and get_self among them, and a read of its namespace
\* returns what it would have returned before.
C33_SaveLeavesLiveSpaces ==
    [][ result'.op = "save" =>
          \A s \in DOMAIN impl :
             /\ refs(impl'[s]) = refs(impl[s])
             /\ \A n \in GlobalNames :
                   n \in DOMAIN refs(impl'[s]) /\ refs(impl'[s])[n] = RefObj(0)
             /\ \A ord \in Orders :
                   read(World', s, "namespace", ord).w.impl[s].namespace
                      = read(World, s, "namespace", ord).w.impl[s].namespace ]_vars

====
